---- MODULE Spec2Model ----
(***************************************************************************)
(* Verifiable secret sharing of DeDiS/crypto: the polynomial layer of      *)
(* package share (PriPoly, PubPoly, Lagrange reconstruction) and the VSS   *)
(* protocol of package vss (Dealer, Verifier, aggregator).                 *)
(*                                                                         *)
(* The group is the additive group of integers modulo the prime Q, every   *)
(* point being written as its multiple of the standard base: Base is 1 and *)
(* the second generator derived by deriveH is HBase.  Scalars are the      *)
(* field of integers modulo Q.  Go slices are sequences, so the Go index i *)
(* is position i+1.  A Go pointer that may be nil is a sequence of length  *)
(* at most one: <<>> is nil and <<x>> points to x.                         *)
(***************************************************************************)
EXTENDS Integers, Sequences, FiniteSets, TLC

VARIABLES
    poly,       \* share: coefficients of the private polynomial under test
    shares,     \* share: the list handed to RecoverSecret, nil entries as <<>>
    recovered,  \* share: what the last RecoverSecret call returned
    dealer,     \* vss: the Dealer, <<>> until NewDealer has returned one
    dagg,       \* vss: the Dealer's embedded aggregator, <<>> when absent
    self,       \* vss: index of the Verifier instance under observation
    vagg,       \* vss: verifier index -> its embedded aggregator, <<>> when nil
    focus,      \* vss: which instances the environment drives in this run
    ret,        \* vss: what the observed call of the public API returned
    net         \* vss: the responses broadcast and who has processed them

vars == <<poly, shares, recovered, dealer, dagg, self, vagg, focus, ret, net>>

shareVars == <<poly, shares, recovered>>
vssVars == <<dealer, dagg, self, vagg, focus, ret, net>>

-----------------------------------------------------------------------------
(* Bounds and group parameters *)

\* Order of the scalar field and of the group (a prime).
Q == 5

\* The standard base point, as a multiple of itself.
Base == 1

\* The point deriveH picks for the verifier list, as a multiple of Base.
HBase == 2

\* Largest number of shares n given to Shares(n) and largest threshold.
MaxN == 3

\* Number of verifiers of the VSS run.
NV == 3

Nil == <<>>

Scalars == 0 .. (Q - 1)

-----------------------------------------------------------------------------
(* Scalar field and group arithmetic *)

AddQ(a, b) == (a + b) % Q

SubQ(a, b) == (a + Q - b) % Q

MulQ(a, b) == (a * b) % Q

RECURSIVE PowQ(_, _)
PowQ(a, k) == IF k = 0 THEN 1 % Q ELSE MulQ(a, PowQ(a, k - 1))

\* Modular inverse; 0 has none and yields 0.
InvQ(a) == PowQ(a, Q - 2)

DivQ(a, b) == MulQ(a, InvQ(b))

SetInt64(v) == v % Q

\* A Go point object is the record of its identity (ref) and its value (pt);
\* a point argument that may be nil is <<>> or <<object>>.
PointObj(ref, pt) == [ref |-> ref, pt |-> pt]

\* Point.Mul(P, s): s times the point P, the standard base when P is nil.
PointMul(P, s) == IF P = Nil THEN (Base * s) % Q ELSE (P[1].pt * s) % Q

\* Point.Add(P1, P2).
PointAdd(P1, P2) == (P1 + P2) % Q

PointNull == 0

-----------------------------------------------------------------------------
(* package share: private polynomials *)

\* NewPriPoly(g, t, s, rand): s is <<>> (nil) or <<secret>>; rnd is the
\* sequence of scalars the stream yields, consumed in order.
NewPriPoly(t, s, rnd) ==
    IF s = Nil
    THEN [i \in 1 .. t |-> rnd[i]]
    ELSE [i \in 1 .. t |-> IF i = 1 THEN s[1] ELSE rnd[i - 1]]

Threshold(p) == Len(p)

\* Horner's scheme from the highest coefficient down to coefficient j0.
RECURSIVE HornerScalar(_, _, _, _)
HornerScalar(p, xi, j, sv) ==
    IF j < 0 THEN sv
    ELSE HornerScalar(p, xi, j - 1, AddQ(MulQ(sv, xi), p[j + 1]))

PriEvalMutant(p, i) ==
    [I |-> i, V |-> HornerScalar(p, SetInt64(i), Threshold(p) - 1, 0)]

\* PriPoly.Eval(i): the private share at x = 1 + i.
PriEval(p, i) ==
    [I |-> i, V |-> HornerScalar(p, SetInt64(1 + i), Threshold(p) - 1, 0)]

\* PriPoly.Shares(n).
PriShares(p, n) == [k \in 1 .. n |-> <<PriEval(p, k - 1)>>]

\* PriPoly.Commit(b): b is the base point, nil for the standard base.
Commit(p, b) == [b |-> b, commits |-> [k \in 1 .. Len(p) |-> PointMul(b, p[k])]]

PriPolyAddShorter(p, q) ==
    LET t == IF Len(p) < Len(q) THEN Len(p) ELSE Len(q)
    IN  [err |-> "", poly |-> <<[k \in 1 .. t |-> AddQ(p[k], q[k])]>>]

\* PriPoly.Add(q): the component-wise sum as a new polynomial.  Both
\* polynomials are over the one group of the model.
PriPolyAdd(p, q) ==
    IF Threshold(p) # Threshold(q)
    THEN [err |-> "Non-matching number of coefficients", poly |-> Nil]
    ELSE [err |-> "",
          poly |-> <<[k \in 1 .. Threshold(p) |-> AddQ(p[k], q[k])]>>]

-----------------------------------------------------------------------------
(* package share: Lagrange reconstruction *)

\* The loop of xCoords from position i on: c coordinates set so far in x.
RECURSIVE XCoordsLoop(_, _, _, _, _, _)
XCoordsLoop(t, n, nn, i, c, x) ==
    IF i >= n THEN [x |-> x, c |-> c]
    ELSE IF nn[i + 1]
         THEN LET x2 == [x EXCEPT ![i + 1] = <<SetInt64(1 + i)>>]
              IN  IF c + 1 >= t THEN [x |-> x2, c |-> c + 1]
                  ELSE XCoordsLoop(t, n, nn, i + 1, c + 1, x2)
         ELSE XCoordsLoop(t, n, nn, i + 1, c, x)

RECURSIVE XCoordsLoopNoBreak(_, _, _, _, _, _)
XCoordsLoopNoBreak(t, n, nn, i, c, x) ==
    IF i >= n THEN [x |-> x, c |-> c]
    ELSE IF nn[i + 1]
         THEN XCoordsLoopNoBreak(t, n, nn, i + 1, c + 1,
                                 [x EXCEPT ![i + 1] = <<SetInt64(1 + i)>>])
         ELSE XCoordsLoopNoBreak(t, n, nn, i + 1, c, x)

XCoordsNoBreak(t, n, nn) ==
    LET r == XCoordsLoopNoBreak(t, n, nn, 0, 0, [k \in 1 .. n |-> Nil])
    IN  IF r.c < t THEN [err |-> "Not enough shares to reconstruct secret", x |-> Nil]
        ELSE [err |-> "", x |-> r.x]

\* xCoords(g, t, n, isNotNil): nn[i+1] is isNotNil(i).
XCoords(t, n, nn) ==
    LET r == XCoordsLoop(t, n, nn, 0, 0, [k \in 1 .. n |-> Nil])
    IN  IF r.c < t THEN [err |-> "Not enough shares to reconstruct secret", x |-> Nil]
        ELSE [err |-> "", x |-> r.x]

\* Inner loop of RecoverSecret over j, for the share at position i.
RECURSIVE LagrangeNum(_, _, _, _)
LagrangeNum(x, i, j, num) ==
    IF j >= Len(x) THEN num
    ELSE IF j = i \/ x[j + 1] = Nil THEN LagrangeNum(x, i, j + 1, num)
         ELSE LagrangeNum(x, i, j + 1, MulQ(num, x[j + 1][1]))

RECURSIVE LagrangeDen(_, _, _, _)
LagrangeDen(x, i, j, den) ==
    IF j >= Len(x) THEN den
    ELSE IF j = i \/ x[j + 1] = Nil THEN LagrangeDen(x, i, j + 1, den)
         ELSE LagrangeDen(x, i, j + 1, MulQ(den, SubQ(x[j + 1][1], x[i + 1][1])))

RECURSIVE RecoverLoop(_, _, _, _)
RecoverLoop(sh, x, i, acc) ==
    IF i >= Len(x) THEN acc
    ELSE IF x[i + 1] = Nil THEN RecoverLoop(sh, x, i + 1, acc)
         ELSE RecoverLoop(sh, x, i + 1,
                AddQ(acc, DivQ(LagrangeNum(x, i, 0, sh[i + 1][1].V),
                               LagrangeDen(x, i, 0, 1))))

RecoverSecretMutant(sh, t) ==
    LET xc == XCoords(t - 1, Len(sh), [k \in 1 .. Len(sh) |-> sh[k] # Nil])
    IN  IF xc.err # "" THEN [err |-> xc.err, v |-> Nil]
        ELSE [err |-> "", v |-> <<RecoverLoop(sh, xc.x, 0, 0)>>]

\* share.RecoverSecret(g, shares, t).
RecoverSecret(sh, t) ==
    LET xc == XCoords(t, Len(sh), [k \in 1 .. Len(sh) |-> sh[k] # Nil])
    IN  IF xc.err # "" THEN [err |-> xc.err, v |-> Nil]
        ELSE [err |-> "", v |-> <<RecoverLoop(sh, xc.x, 0, 0)>>]

-----------------------------------------------------------------------------
(* package share: public polynomials *)

\* Horner's scheme in the group, from the highest commitment down.
RECURSIVE HornerPoint(_, _, _, _)
HornerPoint(c, xi, j, pv) ==
    IF j < 0 THEN pv
    ELSE HornerPoint(c, xi, j - 1,
                     PointAdd(PointMul(<<PointObj("pv", pv)>>, xi), c[j + 1]))

\* share.NewPubPoly(g, b, commits).
NewPubPoly(b, commits) == [b |-> b, commits |-> commits]

\* PubPoly.Eval(i): the public share at x = 1 + i.
PubEval(P, i) ==
    [I |-> i, V |-> HornerPoint(P.commits, SetInt64(1 + i), Len(P.commits) - 1, PointNull)]

\* PubPoly.Shares(n).
PubShares(P, n) == [k \in 1 .. n |-> <<PubEval(P, k - 1)>>]

PubCheckStandardBase(P, s) ==
    PubEval(P, s.I).V = PointMul(Nil, s.V)

\* PubPoly.Check(s): the private share s against the commitments.
PubCheck(P, s) ==
    LET pv == PubEval(P, s.I)
        ps == PointMul(P.b, s.V)
    IN  pv.V = ps

\* The loop of RecoverCommit over i: every used share times its Lagrange
\* coefficient num/den, added to the accumulator.
RECURSIVE RecoverCommitLoop(_, _, _, _)
RecoverCommitLoop(sh, x, i, acc) ==
    IF i >= Len(x) THEN acc
    ELSE IF x[i + 1] = Nil THEN RecoverCommitLoop(sh, x, i + 1, acc)
         ELSE RecoverCommitLoop(sh, x, i + 1,
                PointAdd(acc,
                         PointMul(<<PointObj("V", sh[i + 1][1].V)>>,
                                  DivQ(LagrangeNum(x, i, 0, 1),
                                       LagrangeDen(x, i, 0, 1)))))

RecoverCommitFewer(sh, t) ==
    LET xc == XCoords(t - 1, Len(sh), [k \in 1 .. Len(sh) |-> sh[k] # Nil])
    IN  IF xc.err # "" THEN [err |-> xc.err, v |-> Nil]
        ELSE [err |-> "", v |-> <<RecoverCommitLoop(sh, xc.x, 0, PointNull)>>]

\* share.RecoverCommit(g, shares, t).
RecoverCommit(sh, t) ==
    LET xc == XCoords(t, Len(sh), [k \in 1 .. Len(sh) |-> sh[k] # Nil])
    IN  IF xc.err # "" THEN [err |-> xc.err, v |-> Nil]
        ELSE [err |-> "", v |-> <<RecoverCommitLoop(sh, xc.x, 0, PointNull)>>]

\* PubPoly.Add(q) of package share as src/unnamed/part_000 has it: the base
\* points are compared as Go interface values.
PubPolyAdd(P, R) ==
    IF P.b # R.b THEN [err |-> "Non-matching base points", poly |-> Nil]
    ELSE IF Len(P.commits) # Len(R.commits)
    THEN [err |-> "Non-matching number of coefficients", poly |-> Nil]
    ELSE [err |-> "",
          poly |-> <<[b |-> P.b,
                      commits |-> [k \in 1 .. Len(P.commits) |->
                                      PointAdd(P.commits[k], R.commits[k])]]>>]

\* F.Add(G) as package vss calls it.  vss imports gopkg.in/dedis/crypto.v0/share
\* (it calls share.RecoverSecret with four arguments), a later version of the
\* package than the file above; that version is described by the specification
\* only: addition requires identical groups and identical thresholds and
\* returns the coefficient-wise sum, keeping the base of the receiver.
JointAdd(P, R) ==
    IF Len(P.commits) # Len(R.commits)
    THEN [err |-> "Non-matching number of coefficients", poly |-> Nil]
    ELSE [err |-> "",
          poly |-> <<[b |-> P.b,
                      commits |-> [k \in 1 .. Len(P.commits) |->
                                      PointAdd(P.commits[k], R.commits[k])]]>>]

\* share.RecoverSecret(g, shares, t, n) as package vss calls it, of the same
\* later version of the package, described by the specification only: the
\* first t non-null entries of the list are collected, left to right, and
\* fewer than t is an error; the share of index i has the x-coordinate i + 1;
\* the result is the sum of s_i.V * L_i(0), every basis polynomial being
\* the quotient of a numerator and a denominator accumulated separately.
\* The specification gives n no part in the result.
RECURSIVE CollectV0(_, _, _, _)
CollectV0(sh, t, k, c) ==
    IF k > Len(sh) \/ Len(c) >= t THEN c
    ELSE IF sh[k] = Nil THEN CollectV0(sh, t, k + 1, c)
         ELSE CollectV0(sh, t, k + 1, Append(c, k))

\* The x-coordinate of the share at position p of the list.
XOfShareV0(sh, p) == SetInt64(1 + sh[p][1].I)

RECURSIVE BasisV0(_, _, _, _, _, _)
BasisV0(sh, c, p, k, num, den) ==
    IF k > Len(c) THEN DivQ(num, den)
    ELSE IF c[k] = p THEN BasisV0(sh, c, p, k + 1, num, den)
         ELSE BasisV0(sh, c, p, k + 1,
                      MulQ(num, XOfShareV0(sh, c[k])),
                      MulQ(den, SubQ(XOfShareV0(sh, c[k]), XOfShareV0(sh, p))))

RECURSIVE SumV0(_, _, _, _)
SumV0(sh, c, k, acc) ==
    IF k > Len(c) THEN acc
    ELSE SumV0(sh, c, k + 1,
               AddQ(acc, MulQ(sh[c[k]][1].V, BasisV0(sh, c, c[k], 1, 1, 1))))

\* Two of the collected shares have the same x-coordinate: a basis has the
\* denominator zero.
RepeatedV0(sh, c) ==
    \E i, j \in 1 .. Len(c) :
        i # j /\ XOfShareV0(sh, c[i]) = XOfShareV0(sh, c[j])

\* What a call may give where the quotient by zero leaves the result open:
\* any scalar, an error, or no return at all.
OpenResultsV0 ==
    {[err |-> "", v |-> <<s>>] : s \in Scalars}
    \cup {[err |-> "InsufficientShares", v |-> Nil],
          [err |-> "panic: division by zero", v |-> Nil]}

\* The results a call may give: one, unless a share is collected twice.
RecoverSecretV0(sh, t, n) ==
    LET c == CollectV0(sh, t, 1, <<>>)
    IN  IF Len(c) < t
        THEN {[err |-> "InsufficientShares", v |-> Nil]}
        ELSE IF RepeatedV0(sh, c) THEN OpenResultsV0
        ELSE {[err |-> "", v |-> <<SumV0(sh, c, 1, 0)>>]}

-----------------------------------------------------------------------------
(* package vss: keys, hashes and messages *)

Verifiers == 0 .. (NV - 1)

\* Long-term keys are named by their owner; the verifier list holds the
\* public key of verifier i at index i.
DealerPub == NV

VerifiersPub == [k \in 1 .. NV |-> k - 1]

\* Modulus of the conversion uint32(x).  The integers of the model checker
\* end below 2^31, so the word is one of 30 bits: every index and threshold
\* of the model fits, and WordMod + 2 is a threshold that does not.
WordMod == 1073741824

\* uint32(x)
Uint32(x) == x % WordMod

validTMutant(t, n) == t > 2 /\ t <= n /\ Uint32(t) = t

\* validT(t, verifiers), n being len(verifiers).
validT(t, n) == t >= 2 /\ t <= n /\ Uint32(t) = t

\* deriveH(suite, verifiers): a point fixed by the verifier list.
deriveH == PointObj("H", HBase)

\* findPub(verifiers, idx): ok and the key.
findPub(verifiers, idx) ==
    IF idx >= Len(verifiers) THEN [ok |-> FALSE, pub |-> Nil]
    ELSE [ok |-> TRUE, pub |-> <<verifiers[idx + 1]>>]

\* sessionID(suite, dealer, verifiers, commitments, t): the hash is the record
\* of what is written into it, so that different inputs give different ids.
sessionID(dealerKey, verifiers, commitments, t) ==
    [dealer |-> dealerKey, verifiers |-> verifiers,
     commits |-> commitments, t |-> Uint32(t)]

\* A Schnorr signature is the name of the key that made it over exactly the
\* fields of the message it is attached to; NoKey is a signature no key of
\* the run made (forged, or made before a field was altered).
NoKey == NV + 1

\* A session id that is the hash of nothing a participant computes.
BogusSid == sessionID(NoKey, <<>>, <<>>, 0)

\* sign.VerifySchnorr(suite, pub, hash(msg), sig) = nil
VerifySchnorr(pub, signer) == signer = pub

newAggregatorNoSid(verifiers, commitments, t, sid) ==
    [verifiers |-> verifiers,
     commits |-> commitments,
     t |-> t,
     sid |-> BogusSid,
     responses |-> [i \in 0 .. (Len(verifiers) - 1) |-> Nil],
     deal |-> Nil,
     badDealer |-> FALSE]

\* newAggregator(suite, dealer, verifiers, commitments, t, sid)
newAggregator(verifiers, commitments, t, sid) ==
    [verifiers |-> verifiers,
     commits |-> commitments,
     t |-> t,
     sid |-> sid,
     responses |-> [i \in 0 .. (Len(verifiers) - 1) |-> Nil],
     deal |-> Nil,
     badDealer |-> FALSE]

-----------------------------------------------------------------------------
(* package vss: aggregator *)

VerifyDealNoInclusion(a, d, inclusion) ==
    LET a1 == IF a.deal = Nil
              THEN [a EXCEPT !.commits = d.Commitments, !.sid = d.SessionID,
                             !.deal = <<d>>]
              ELSE a
        fi == d.SecShare
        gi == d.RndShare
        fig == PointMul(Nil, fi.V)
        gih == PointMul(<<deriveH>>, gi.V)
        ci == PointAdd(fig, gih)
    IN  IF ~validT(d.T, Len(a.verifiers))
        THEN [agg |-> a1, err |-> "vss: invalid t received in Deal"]
        ELSE IF a1.sid # d.SessionID
        THEN [agg |-> a1, err |-> "vss: find different sessionIDs from Deal"]
        ELSE IF fi.I # gi.I
        THEN [agg |-> a1, err |-> "vss: not the same index for f and g share in Deal"]
        ELSE IF fi.I < 0 \/ fi.I >= Len(a.verifiers)
        THEN [agg |-> a1, err |-> "vss: index out of bounds in Deal"]
        ELSE IF ci # PubEval(NewPubPoly(Nil, d.Commitments), fi.I).V
        THEN [agg |-> a1, err |-> "vss: share does not verify against commitments in Deal"]
        ELSE [agg |-> a1, err |-> ""]

VerifyDealAlwaysRecord(a, d, inclusion) ==
    IF a.deal # Nil /\ inclusion
    THEN [agg |-> a, err |-> "vss: verifier already received a deal"]
    ELSE
    LET a1 == [a EXCEPT !.commits = d.Commitments, !.sid = d.SessionID,
                        !.deal = <<d>>]
        fi == d.SecShare
        gi == d.RndShare
        fig == PointMul(Nil, fi.V)
        gih == PointMul(<<deriveH>>, gi.V)
        ci == PointAdd(fig, gih)
    IN  IF ~validT(d.T, Len(a.verifiers))
        THEN [agg |-> a1, err |-> "vss: invalid t received in Deal"]
        ELSE IF a1.sid # d.SessionID
        THEN [agg |-> a1, err |-> "vss: find different sessionIDs from Deal"]
        ELSE IF fi.I # gi.I
        THEN [agg |-> a1, err |-> "vss: not the same index for f and g share in Deal"]
        ELSE IF fi.I < 0 \/ fi.I >= Len(a.verifiers)
        THEN [agg |-> a1, err |-> "vss: index out of bounds in Deal"]
        ELSE IF ci # PubEval(NewPubPoly(Nil, d.Commitments), fi.I).V
        THEN [agg |-> a1, err |-> "vss: share does not verify against commitments in Deal"]
        ELSE [agg |-> a1, err |-> ""]

\* aggregator.VerifyDeal(d, inclusion): the aggregator afterwards and the error.
VerifyDeal(a, d, inclusion) ==
    IF a.deal # Nil /\ inclusion
    THEN [agg |-> a, err |-> "vss: verifier already received a deal"]
    ELSE
    LET a1 == IF a.deal = Nil
              THEN [a EXCEPT !.commits = d.Commitments, !.sid = d.SessionID,
                             !.deal = <<d>>]
              ELSE a
        fi == d.SecShare
        gi == d.RndShare
        fig == PointMul(Nil, fi.V)
        gih == PointMul(<<deriveH>>, gi.V)
        ci == PointAdd(fig, gih)
    IN  IF ~validT(d.T, Len(a.verifiers))
        THEN [agg |-> a1, err |-> "vss: invalid t received in Deal"]
        ELSE IF a1.sid # d.SessionID
        THEN [agg |-> a1, err |-> "vss: find different sessionIDs from Deal"]
        ELSE IF fi.I # gi.I
        THEN [agg |-> a1, err |-> "vss: not the same index for f and g share in Deal"]
        ELSE IF fi.I < 0 \/ fi.I >= Len(a.verifiers)
        THEN [agg |-> a1, err |-> "vss: index out of bounds in Deal"]
        ELSE IF ci # PubEval(NewPubPoly(Nil, d.Commitments), fi.I).V
        THEN [agg |-> a1, err |-> "vss: share does not verify against commitments in Deal"]
        ELSE [agg |-> a1, err |-> ""]

addResponseAscending(a, r) ==
    IF ~findPub(a.verifiers, r.Index).ok
    THEN [agg |-> a, err |-> "vss: index out of bounds in Complaint"]
    ELSE IF \E i \in DOMAIN a.responses : i >= r.Index /\ a.responses[i] # Nil
    THEN [agg |-> a, err |-> "vss: already existing response from same origin"]
    ELSE [agg |-> [a EXCEPT !.responses[r.Index] = <<r>>], err |-> ""]

addResponseOverwrite(a, r) ==
    IF ~findPub(a.verifiers, r.Index).ok
    THEN [agg |-> a, err |-> "vss: index out of bounds in Complaint"]
    ELSE [agg |-> [a EXCEPT !.responses[r.Index] = <<r>>], err |-> ""]

\* aggregator.addResponse(r)
addResponse(a, r) ==
    IF ~findPub(a.verifiers, r.Index).ok
    THEN [agg |-> a, err |-> "vss: index out of bounds in Complaint"]
    ELSE IF a.responses[r.Index] # Nil
    THEN [agg |-> a, err |-> "vss: already existing response from same origin"]
    ELSE [agg |-> [a EXCEPT !.responses[r.Index] = <<r>>], err |-> ""]

verifyResponseNoSid(a, r) ==
    IF ~findPub(a.verifiers, r.Index).ok
    THEN [agg |-> a, err |-> "vss: index out of bounds in response"]
    ELSE IF ~VerifySchnorr(findPub(a.verifiers, r.Index).pub[1], r.Signer)
    THEN [agg |-> a, err |-> "schnorr: invalid signature"]
    ELSE addResponse(a, r)

\* aggregator.verifyResponse(r)
verifyResponse(a, r) ==
    IF r.SessionID # a.sid
    THEN [agg |-> a, err |-> "vss: receiving inconsistent sessionID in response"]
    ELSE IF ~findPub(a.verifiers, r.Index).ok
    THEN [agg |-> a, err |-> "vss: index out of bounds in response"]
    ELSE IF ~VerifySchnorr(findPub(a.verifiers, r.Index).pub[1], r.Signer)
    THEN [agg |-> a, err |-> "schnorr: invalid signature"]
    ELSE addResponse(a, r)

verifyJustificationNoLatch(a, j) ==
    IF ~findPub(a.verifiers, j.Index).ok
    THEN [agg |-> a, err |-> "vss: index out of bounds in justification"]
    ELSE IF a.responses[j.Index] = Nil
    THEN [agg |-> a, err |-> "vss: no complaints received for this justification"]
    ELSE IF a.responses[j.Index][1].Approved
    THEN [agg |-> a, err |-> "vss: justification received for an approval"]
    ELSE LET vd == VerifyDeal(a, j.Deal, FALSE)
         IN  IF vd.err # ""
             THEN [agg |-> vd.agg, err |-> vd.err]
             ELSE [agg |-> [vd.agg EXCEPT !.responses[j.Index] =
                              <<[a.responses[j.Index][1] EXCEPT !.Approved = TRUE]>>],
                   err |-> ""]

verifyJustificationNoFlip(a, j) ==
    IF ~findPub(a.verifiers, j.Index).ok
    THEN [agg |-> a, err |-> "vss: index out of bounds in justification"]
    ELSE IF a.responses[j.Index] = Nil
    THEN [agg |-> a, err |-> "vss: no complaints received for this justification"]
    ELSE IF a.responses[j.Index][1].Approved
    THEN [agg |-> a, err |-> "vss: justification received for an approval"]
    ELSE LET vd == VerifyDeal(a, j.Deal, FALSE)
         IN  IF vd.err # ""
             THEN [agg |-> [vd.agg EXCEPT !.badDealer = TRUE], err |-> vd.err]
             ELSE [agg |-> vd.agg, err |-> ""]

\* aggregator.verifyJustification(j)
verifyJustification(a, j) ==
    IF ~findPub(a.verifiers, j.Index).ok
    THEN [agg |-> a, err |-> "vss: index out of bounds in justification"]
    ELSE IF a.responses[j.Index] = Nil
    THEN [agg |-> a, err |-> "vss: no complaints received for this justification"]
    ELSE IF a.responses[j.Index][1].Approved
    THEN [agg |-> a, err |-> "vss: justification received for an approval"]
    ELSE LET vd == VerifyDeal(a, j.Deal, FALSE)
         IN  IF vd.err # ""
             THEN [agg |-> [vd.agg EXCEPT !.badDealer = TRUE], err |-> vd.err]
             ELSE [agg |-> [vd.agg EXCEPT !.responses[j.Index] =
                              <<[a.responses[j.Index][1] EXCEPT !.Approved = TRUE]>>],
                   err |-> ""]

\* Number of stored responses with the given value of Approved.
CountResponses(a, approved) ==
    Cardinality({i \in DOMAIN a.responses :
                    a.responses[i] # Nil /\ a.responses[i][1].Approved = approved})

EnoughApprovalsStrict(a) == CountResponses(a, TRUE) > a.t

\* aggregator.EnoughApprovals(), on an aggregator that is not nil.
EnoughApprovals(a) == CountResponses(a, TRUE) >= a.t

DealCertifiedNoBadDealer(ao) ==
    IF ao = Nil THEN FALSE
    ELSE LET a == ao[1]
             comps == CountResponses(a, FALSE)
             tooMuchComplaints == comps >= a.t
         IN  EnoughApprovals(a) /\ ~tooMuchComplaints

DealCertifiedAnyComplaint(ao) ==
    IF ao = Nil THEN FALSE
    ELSE LET a == ao[1]
             comps == CountResponses(a, FALSE)
             tooMuchComplaints == comps >= 1 \/ a.badDealer
         IN  EnoughApprovals(a) /\ ~tooMuchComplaints

\* aggregator.DealCertified(), on a pointer that may be nil.
DealCertified(ao) ==
    IF ao = Nil THEN FALSE
    ELSE LET a == ao[1]
             comps == CountResponses(a, FALSE)
             tooMuchComplaints == comps >= a.t \/ a.badDealer
         IN  EnoughApprovals(a) /\ ~tooMuchComplaints

-----------------------------------------------------------------------------
(* package vss: Dealer *)

\* NewDealer(suite, longterm, secret, verifiers, r, t): rnd is what the
\* stream r yields.  The polynomials f and g are locals; the Dealer keeps the
\* deals, the commitments of f and the session id.
NewDealer(secret, verifiers, rnd, t) ==
    IF ~validT(t, Len(verifiers))
    THEN [err |-> "dealer: t invalid", d |-> Nil, agg |-> Nil]
    ELSE
    LET H == deriveH
        f == NewPriPoly(t, <<secret>>, rnd)
        g == NewPriPoly(t, Nil, SubSeq(rnd, t, Len(rnd)))
        F == Commit(f, <<PointObj("Base", Base)>>)
        G == Commit(g, <<H>>)
        C == JointAdd(F, G)
    IN  IF C.err # "" THEN [err |-> C.err, d |-> Nil, agg |-> Nil]
        ELSE
        LET commitments == C.poly[1].commits
            sid == sessionID(DealerPub, verifiers, commitments, t)
        IN  [err |-> "",
             d |-> <<[secret |-> secret,
                      verifiers |-> verifiers,
                      secretCommits |-> F.commits,
                      t |-> t,
                      sessionID |-> sid,
                      deals |-> [k \in 1 .. Len(verifiers) |->
                                   [SessionID |-> sid,
                                    SecShare |-> PriEval(f, k - 1),
                                    RndShare |-> PriEval(g, k - 1),
                                    Commitments |-> commitments,
                                    T |-> Uint32(t)]]]>>,
             agg |-> <<newAggregator(verifiers, commitments, t, sid)>>]

\* Dealer.EncryptedDeal(i): the ephemeral key signed by the dealer and the deal
\* sealed for the key of verifier i.
EncryptedDeal(d, i) ==
    [Signature |-> DealerPub, To |-> i, Cipher |-> "sealed", Deal |-> d.deals[i + 1]]

DealerProcessResponseFirstDeal(d, a, r) ==
    LET vr == verifyResponse(a, r)
    IN  IF vr.err # "" THEN [agg |-> vr.agg, err |-> vr.err, just |-> Nil]
        ELSE IF r.Approved THEN [agg |-> vr.agg, err |-> "", just |-> Nil]
        ELSE [agg |-> vr.agg, err |-> "",
              just |-> <<[SessionID |-> d.sessionID,
                          Index |-> r.Index,
                          Deal |-> d.deals[1],
                          Signer |-> DealerPub]>>]

\* Dealer.ProcessResponse(r) on the dealer d with aggregator a.
DealerProcessResponse(d, a, r) ==
    LET vr == verifyResponse(a, r)
    IN  IF vr.err # "" THEN [agg |-> vr.agg, err |-> vr.err, just |-> Nil]
        ELSE IF r.Approved THEN [agg |-> vr.agg, err |-> "", just |-> Nil]
        ELSE [agg |-> vr.agg, err |-> "",
              just |-> <<[SessionID |-> d.sessionID,
                          Index |-> r.Index,
                          Deal |-> d.deals[r.Index + 1],
                          Signer |-> DealerPub]>>]

\* Dealer.SecretCommit() on the dealer d with aggregator a: nil, or the
\* point secret*B.
SecretCommit(d, a) ==
    IF ~EnoughApprovals(a) \/ ~DealCertified(<<a>>) THEN Nil
    ELSE <<PointMul(Nil, d.secret)>>

\* Dealer.Commits(): nil, or the commitments kept at construction.
Commits(d, a) ==
    IF ~EnoughApprovals(a) \/ ~DealCertified(<<a>>) THEN Nil
    ELSE <<d.secretCommits>>

-----------------------------------------------------------------------------
(* package vss: Verifier *)

\* The search of NewVerifier for the public key in the verifier list:
\* for i, v := range verifiers { if v.Equal(pub) { ok, index = true, i; break } }
RECURSIVE NewVerifierLoop(_, _, _)
NewVerifierLoop(verifiers, pub, i) ==
    IF i >= Len(verifiers) THEN [ok |-> FALSE, index |-> 0]
    ELSE IF verifiers[i + 1] = pub THEN [ok |-> TRUE, index |-> i]
    ELSE NewVerifierLoop(verifiers, pub, i + 1)

NewVerifierLastMatch(longterm, verifiers) ==
    LET pub == PointMul(Nil, longterm)
        hits == {i \in 0 .. (Len(verifiers) - 1) : verifiers[i + 1] = pub}
    IN  IF hits = {}
        THEN [err |-> "vss: public key not found in the list of verifiers",
              v |-> Nil]
        ELSE [err |-> "",
              v |-> <<[longterm |-> longterm, pub |-> pub,
                       index |-> CHOOSE i \in hits : \A k \in hits : k <= i,
                       verifiers |-> verifiers]>>]

\* v, err := NewVerifier(suite, longterm, dealerKey, verifiers); the keys of
\* the list are points of the group.
NewVerifier(longterm, verifiers) ==
    LET pub == PointMul(Nil, longterm)
        f == NewVerifierLoop(verifiers, pub, 0)
    IN  IF ~f.ok
        THEN [err |-> "vss: public key not found in the list of verifiers",
              v |-> Nil]
        ELSE [err |-> "",
              v |-> <<[longterm |-> longterm, pub |-> pub, index |-> f.index,
                       verifiers |-> verifiers]>>]

\* v.Index()
VerifierIndex(v) == v.index

decryptDealNoSignature(v, e) ==
    IF e.To # v \/ e.Cipher = "tampered"
    THEN [err |-> "cipher: message authentication failed", deal |-> Nil]
    ELSE IF e.Cipher = "undecodable"
    THEN [err |-> "protobuf: decoding failed", deal |-> Nil]
    ELSE [err |-> "", deal |-> <<e.Deal>>]

\* Verifier.decryptDeal(e) of the verifier at index v.
decryptDeal(v, e) ==
    IF ~VerifySchnorr(DealerPub, e.Signature)
    THEN [err |-> "schnorr: invalid signature", deal |-> Nil]
    ELSE IF e.To # v \/ e.Cipher = "tampered"
    THEN [err |-> "cipher: message authentication failed", deal |-> Nil]
    ELSE IF e.Cipher = "undecodable"
    THEN [err |-> "protobuf: decoding failed", deal |-> Nil]
    ELSE [err |-> "", deal |-> <<e.Deal>>]

ProcessEncryptedDealAlwaysApprove(v, verifiers, ao, e) ==
    LET dd == decryptDeal(v, e)
    IN  IF dd.err # "" THEN [agg |-> ao, err |-> dd.err, resp |-> Nil]
        ELSE
        LET d == dd.deal[1]
        IN  IF d.SecShare.I # v
            THEN [agg |-> ao, err |-> "vss: verifier got wrong index from deal",
                  resp |-> Nil]
            ELSE
            LET t == d.T
                sid == sessionID(DealerPub, verifiers, d.Commitments, t)
                a0 == IF ao = Nil
                      THEN newAggregator(verifiers, d.Commitments, t, d.SessionID)
                      ELSE ao[1]
                vd == VerifyDeal(a0, d, TRUE)
                r == [SessionID |-> sid, Index |-> Uint32(v),
                      Approved |-> TRUE, Signer |-> verifiers[v + 1]]
            IN  IF vd.err = "vss: verifier already received a deal"
                THEN [agg |-> <<vd.agg>>, err |-> vd.err, resp |-> Nil]
                ELSE LET ar == addResponse(vd.agg, r)
                     IN  IF ar.err # ""
                         THEN [agg |-> <<ar.agg>>, err |-> ar.err, resp |-> Nil]
                         ELSE [agg |-> <<ar.agg>>, err |-> "", resp |-> <<r>>]

\* Verifier.ProcessEncryptedDeal(e) of the verifier at index v, constructed
\* with the list verifiers, whose aggregator pointer is ao: the pointer afterwards, the error, the response.
ProcessEncryptedDeal(v, verifiers, ao, e) ==
    LET dd == decryptDeal(v, e)
    IN  IF dd.err # "" THEN [agg |-> ao, err |-> dd.err, resp |-> Nil]
        ELSE
        LET d == dd.deal[1]
        IN  IF d.SecShare.I # v
            THEN [agg |-> ao, err |-> "vss: verifier got wrong index from deal",
                  resp |-> Nil]
            ELSE
            LET t == d.T
                sid == sessionID(DealerPub, verifiers, d.Commitments, t)
                a0 == IF ao = Nil
                      THEN newAggregator(verifiers, d.Commitments, t, d.SessionID)
                      ELSE ao[1]
                vd == VerifyDeal(a0, d, TRUE)
                r == [SessionID |-> sid, Index |-> Uint32(v),
                      Approved |-> (vd.err = ""), Signer |-> verifiers[v + 1]]
            IN  IF vd.err = "vss: verifier already received a deal"
                THEN [agg |-> <<vd.agg>>, err |-> vd.err, resp |-> Nil]
                ELSE LET ar == addResponse(vd.agg, r)
                     IN  IF ar.err # ""
                         THEN [agg |-> <<ar.agg>>, err |-> ar.err, resp |-> Nil]
                         ELSE [agg |-> <<ar.agg>>, err |-> "", resp |-> <<r>>]

\* Verifier.Deal() of a verifier whose aggregator pointer is ao.  The
\* method calls EnoughApprovals() first, which ranges over a.responses: on
\* the nil aggregator of a verifier without deal the call aborts.
VerifierDeal(ao) ==
    IF ao = Nil
    THEN [err |-> "panic: nil pointer dereference", deal |-> Nil]
    ELSE IF ~EnoughApprovals(ao[1]) \/ ~DealCertified(ao)
    THEN [err |-> "", deal |-> Nil]
    ELSE [err |-> "", deal |-> ao[1].deal]

\* Verifier.SessionID() of a verifier whose aggregator pointer is ao: the
\* field sid is read through the embedded pointer, which aborts the call
\* when the pointer is nil.
VerifierSessionID(ao) ==
    IF ao = Nil
    THEN [err |-> "panic: nil pointer dereference", out |-> Nil]
    ELSE [err |-> "", out |-> <<ao[1].sid>>]

\* Verifier.EnoughApprovals(), promoted from the embedded aggregator: the
\* method ranges over a.responses, which aborts the call on a nil pointer.
VerifierEnoughApprovals(ao) ==
    IF ao = Nil
    THEN [err |-> "panic: nil pointer dereference", out |-> Nil]
    ELSE [err |-> "", out |-> <<EnoughApprovals(ao[1])>>]

\* Verifier.DealCertified(), promoted from the embedded aggregator: the
\* method tests its receiver for nil first.
VerifierDealCertified(ao) ==
    [err |-> "", out |-> <<DealCertified(ao)>>]

-----------------------------------------------------------------------------
(* package vss: reconstruction *)

\* The loop of vss.RecoverSecret from position i on: the secret share of
\* every deal is stored at the position of the deal, unless the SessionID
\* of the deal differs from that of the first deal.
RECURSIVE RecoverCollect(_, _, _)
RecoverCollect(deals, i, sh) ==
    IF i >= Len(deals) THEN [err |-> "", sh |-> sh]
    ELSE IF deals[i + 1].SessionID = deals[1].SessionID
    THEN RecoverCollect(deals, i + 1,
                        [sh EXCEPT ![i + 1] = <<deals[i + 1].SecShare>>])
    ELSE [err |-> "vss: all deals need to have same session id", sh |-> Nil]

VssRecoverSecretNoSessionCheck(deals, n, t) ==
    RecoverSecretV0([k \in 1 .. Len(deals) |-> <<deals[k].SecShare>>], t, n)

\* vss.RecoverSecret(suite, deals, n, t): the secret shares of the deals, in
\* the order of the list, go with t and n to RecoverSecret of the version of
\* package share that vss imports.  The set of the results the call may give.
VssRecoverSecret(deals, n, t) ==
    LET c == RecoverCollect(deals, 0, [k \in 1 .. Len(deals) |-> Nil])
    IN  IF c.err # "" THEN {[err |-> c.err, v |-> Nil]}
        ELSE RecoverSecretV0(c.sh, t, n)

-----------------------------------------------------------------------------
(* The messages the environment can hand to an instance.  The dealer and   *)
(* the other verifiers may be dishonest, so besides the messages of the    *)
(* honest run there are deals with one field altered, deals of a second    *)
(* dealing, responses with any session id, index, verdict and signature,   *)
(* and justifications carrying any of the deals.                           *)

\* Secrets and random streams NewDealer is called with.
DealerSecrets == {3}

StreamOf(seed) == [i \in 1 .. (2 * NV) |-> (seed * i * i + seed + i) % Q]

DealerStreams == {StreamOf(1)}

\* The threshold arguments tried: negative, too small, valid, larger than n,
\* and one that does not fit in 32 bits.
TInputs == ((0 - 1) .. (NV + 1)) \cup {WordMod + 2}

\* Thresholds a deal may carry in its T field (a uint32).
DealTs == 1 .. (NV + 1)

\* The ways a deal handed to a verifier differs from the deal the dealer
\* built for index k: not at all, in one field, or by being the deal of
\* another dealing by the same dealer key and threshold, relabelled with the
\* session id of the run.
DealKinds ==
    {[kind |-> x, T |-> 0] :
        x \in {"dealt", "SessionID", "RndShare.I", "SecShare.V", "Commitments",
               "redealt"}}
    \cup {[kind |-> "T", T |-> T] : T \in DealTs}

Redeal(d, k) ==
    LET o == NewDealer(AddQ(d.secret, 1), d.verifiers, StreamOf(2), d.t).d[1]
    IN  [o.deals[k] EXCEPT !.SessionID = d.sessionID]

DealInput(d, k, c) ==
    LET x == d.deals[k]
    IN  CASE c.kind = "dealt" -> x
          [] c.kind = "SessionID" -> [x EXCEPT !.SessionID = BogusSid]
          [] c.kind = "RndShare.I" -> [x EXCEPT !.RndShare.I = (x.RndShare.I + 1) % NV]
          [] c.kind = "SecShare.V" -> [x EXCEPT !.SecShare.V = AddQ(x.SecShare.V, 1)]
          [] c.kind = "Commitments" ->
                [x EXCEPT !.Commitments[1] = PointAdd(x.Commitments[1], 1)]
          [] c.kind = "redealt" -> Redeal(d, k)
          [] c.kind = "T" -> [x EXCEPT !.T = c.T]

\* The ways an encrypted deal reaches verifier v: sealed for it by the
\* dealer, with a signature that does not verify, with the ciphertext
\* altered, sealing bytes that are no deal, or sealed for another verifier.
EncKinds == {"sealed", "Signature", "tampered", "undecodable", "To"}

EncDealInput(d, v, k, c, ek) ==
    LET e == [Signature |-> DealerPub, To |-> v, Cipher |-> "sealed",
              Deal |-> DealInput(d, k, c)]
    IN  CASE ek = "sealed" -> e
          [] ek = "Signature" -> [e EXCEPT !.Signature = NoKey]
          [] ek = "tampered" -> [e EXCEPT !.Cipher = "tampered"]
          [] ek = "undecodable" -> [e EXCEPT !.Cipher = "undecodable"]
          [] ek = "To" -> [e EXCEPT !.To = (v + 1) % NV]

\* The session id a response carries: that of the dealer, that of the
\* receiving aggregator, or another one.
SidKinds == {"dealer", "aggregator", "other"}

SidInput(d, ao, sk) ==
    CASE sk = "dealer" -> d.sessionID
      [] sk = "aggregator" -> IF ao = Nil THEN d.sessionID ELSE ao[1].sid
      [] sk = "other" -> BogusSid

\* A response for index i (the length of the verifier list is outside it),
\* signed by the verifier it names or carrying a signature that does not
\* verify.
ResponseInput(d, ao, sk, i, approved, signed) ==
    [SessionID |-> SidInput(d, ao, sk), Index |-> i, Approved |-> approved,
     Signer |-> IF signed /\ i < Len(d.verifiers) THEN d.verifiers[i + 1]
                ELSE NoKey]

\* A justification for index i carrying the deal variant c of index k.
JustificationInput(d, i, k, c) ==
    [SessionID |-> d.sessionID, Index |-> i, Deal |-> DealInput(d, k, c),
     Signer |-> DealerPub]

-----------------------------------------------------------------------------
(* Specification of the VSS protocol.  A Dealer is created; then either    *)
(* the Dealer or the Verifier at index self is driven by the environment   *)
(* with the messages above, each a fresh object.  The effect of Response   *)
(* objects that several instances hold is part of the run with complaints  *)
(* further below.                                                          *)

NoRecovery == [t |-> 0, err |-> "", v |-> Nil, done |-> FALSE]

ShareIdle == poly = <<>> /\ shares = <<>> /\ recovered = NoRecovery

\* The record of an observed call: the method, the instance (a verifier
\* index, or DealerPub for the Dealer), the argument, the aggregator pointer
\* before the call, the error returned ("" for nil) and the Response or
\* Justification returned.
Ret(op, who, in, pre, err, out) ==
    [op |-> op, who |-> who, in |-> in, pre |-> pre, err |-> err, out |-> out]

NoRet == Ret("none", 0, 0, Nil, "", Nil)

\* No response has been broadcast.
NoNet == [resp |-> [i \in Verifiers |-> Nil], seen |-> {}]

\* What a call leaves in ret: its record when the call is observed.  A run is
\* a sequence of calls of which the last one may be observed.
Observe(obs, r) == IF obs THEN r ELSE NoRet

Init ==
    /\ ShareIdle
    /\ dealer = Nil /\ dagg = Nil
    /\ vagg = [v \in Verifiers |-> Nil]
    /\ \/ focus = "dealer" /\ self = 0
       \/ focus = "verifier" /\ self \in Verifiers
    /\ ret = NoRet
    /\ net = NoNet

\* d, err := NewDealer(suite, longterm, secret, verifiers, r, t)
NewDealerCall(secret, rnd, t, obs) ==
    /\ ret.op = "none"
    /\ dealer = Nil
    /\ LET n == NewDealer(secret, VerifiersPub, rnd, t)
       IN  /\ dealer' = n.d
           /\ dagg' = n.agg
           /\ ret' = Observe(obs \/ n.err # "",
                             Ret("NewDealer", DealerPub, t, Nil, n.err, Nil))
    /\ UNCHANGED <<shareVars, self, vagg, focus, net>>

\* j, err := dealer.ProcessResponse(r)
DealerResponseCall(r, obs) ==
    /\ ret.op = "none"
    /\ dealer # Nil
    /\ LET p == DealerProcessResponse(dealer[1], dagg[1], r)
       IN  /\ dagg' = <<p.agg>>
           /\ ret' = Observe(obs, Ret("ProcessResponse", DealerPub, r, dagg,
                                      p.err, p.just))
    /\ UNCHANGED <<shareVars, dealer, self, vagg, focus, net>>

\* r, err := v.ProcessEncryptedDeal(e)
VerifierDealCall(v, e, obs) ==
    /\ ret.op = "none"
    /\ dealer # Nil
    /\ LET p == ProcessEncryptedDeal(v, dealer[1].verifiers, vagg[v], e)
       IN  /\ vagg' = [vagg EXCEPT ![v] = p.agg]
           /\ ret' = Observe(obs, Ret("ProcessEncryptedDeal", v, e, vagg[v],
                                      p.err, p.resp))
    /\ UNCHANGED <<shareVars, dealer, dagg, self, focus, net>>

\* err := v.ProcessResponse(r); the nil aggregator of a verifier that holds
\* no deal is dereferenced, which aborts the call.
VerifierResponseCall(v, r, obs) ==
    /\ ret.op = "none"
    /\ dealer # Nil
    /\ IF vagg[v] = Nil
       THEN /\ ret' = Observe(obs, Ret("ProcessResponse", v, r, Nil,
                                       "panic: nil pointer dereference", Nil))
            /\ vagg' = vagg
       ELSE LET p == verifyResponse(vagg[v][1], r)
            IN  /\ vagg' = [vagg EXCEPT ![v] = <<p.agg>>]
                /\ ret' = Observe(obs, Ret("ProcessResponse", v, r, vagg[v],
                                           p.err, Nil))
    /\ UNCHANGED <<shareVars, dealer, dagg, self, focus, net>>

\* err := v.ProcessJustification(j); on a nil aggregator the index check
\* reads a.verifiers, which aborts the call.
VerifierJustificationCall(v, j, obs) ==
    /\ ret.op = "none"
    /\ dealer # Nil
    /\ IF vagg[v] = Nil
       THEN /\ ret' = Observe(obs, Ret("ProcessJustification", v, j, Nil,
                                       "panic: nil pointer dereference", Nil))
            /\ vagg' = vagg
       ELSE LET p == verifyJustification(vagg[v][1], j)
            IN  /\ vagg' = [vagg EXCEPT ![v] = <<p.agg>>]
                /\ ret' = Observe(obs, Ret("ProcessJustification", v, j, vagg[v],
                                           p.err, Nil))
    /\ UNCHANGED <<shareVars, dealer, dagg, self, focus, net>>

\* c := dealer.SecretCommit()
SecretCommitCall ==
    /\ ret.op = "none"
    /\ dealer # Nil
    /\ ret' = Ret("SecretCommit", DealerPub, 0, dagg, "",
                  SecretCommit(dealer[1], dagg[1]))
    /\ UNCHANGED <<shareVars, dealer, dagg, self, vagg, focus, net>>

\* c := dealer.Commits()
CommitsCall ==
    /\ ret.op = "none"
    /\ dealer # Nil
    /\ ret' = Ret("Commits", DealerPub, 0, dagg, "",
                  Commits(dealer[1], dagg[1]))
    /\ UNCHANGED <<shareVars, dealer, dagg, self, vagg, focus, net>>

\* d := v.Deal()
VerifierDealAccess(v) ==
    /\ ret.op = "none"
    /\ dealer # Nil
    /\ LET r == VerifierDeal(vagg[v])
       IN  ret' = Ret("Deal", v, 0, vagg[v], r.err, r.deal)
    /\ UNCHANGED <<shareVars, dealer, dagg, self, vagg, focus, net>>

\* The accessors a Verifier gets from its embedded aggregator.
VerifierAccessors == {"SessionID", "EnoughApprovals", "DealCertified"}

\* x := v.SessionID(), v.EnoughApprovals() or v.DealCertified()
VerifierAccess(v, q) ==
    /\ ret.op = "none"
    /\ dealer # Nil
    /\ LET r == CASE q = "SessionID" -> VerifierSessionID(vagg[v])
                  [] q = "EnoughApprovals" -> VerifierEnoughApprovals(vagg[v])
                  [] q = "DealCertified" -> VerifierDealCertified(vagg[v])
       IN  ret' = Ret(q, v, 0, vagg[v], r.err, r.out)
    /\ UNCHANGED <<shareVars, dealer, dagg, self, vagg, focus, net>>

\* The deals VerifyDeal is called with directly: a deal as dealt, with another
\* session id, with an altered commitment, or with a threshold below 2.  The
\* dealer is handed the deal of index 0, a verifier the deal of its own index.
VerifyDealKinds ==
    {[kind |-> x, T |-> 0] : x \in {"dealt", "SessionID", "Commitments"}}
    \cup {[kind |-> "T", T |-> 1]}

\* err := dealer.VerifyDeal(d, inclusion), the method of the embedded
\* aggregator, which NewDealer creates without a deal.
DealerVerifyDealCall(d, inclusion, obs) ==
    /\ ret.op = "none"
    /\ dealer # Nil
    /\ LET p == VerifyDeal(dagg[1], d, inclusion)
       IN  /\ dagg' = <<p.agg>>
           /\ ret' = Observe(obs, Ret("VerifyDeal", DealerPub,
                                      [Deal |-> d, inclusion |-> inclusion],
                                      dagg, p.err, Nil))
    /\ UNCHANGED <<shareVars, dealer, self, vagg, focus, net>>

\* err := v.VerifyDeal(d, inclusion), the method of the embedded aggregator;
\* the nil aggregator of a verifier that holds no deal is dereferenced, which
\* aborts the call.
VerifierVerifyDealCall(v, d, inclusion, obs) ==
    /\ ret.op = "none"
    /\ dealer # Nil
    /\ IF vagg[v] = Nil
       THEN /\ ret' = Observe(obs, Ret("VerifyDeal", v,
                                       [Deal |-> d, inclusion |-> inclusion], Nil,
                                       "panic: nil pointer dereference", Nil))
            /\ vagg' = vagg
       ELSE LET p == VerifyDeal(vagg[v][1], d, inclusion)
            IN  /\ vagg' = [vagg EXCEPT ![v] = <<p.agg>>]
                /\ ret' = Observe(obs, Ret("VerifyDeal", v,
                                           [Deal |-> d, inclusion |-> inclusion],
                                           vagg[v], p.err, Nil))
    /\ UNCHANGED <<shareVars, dealer, dagg, self, focus, net>>

\* The calls the environment makes on the instance it drives, until it has
\* observed one.
Next ==
    \/ /\ ret.op = "none" /\ dealer = Nil
       /\ \E secret \in DealerSecrets, rnd \in DealerStreams, t \in TInputs,
             obs \in BOOLEAN :
             NewDealerCall(secret, rnd, t, obs)
    \/ /\ ret.op = "none" /\ focus = "dealer" /\ dealer # Nil
       /\ \E sk \in SidKinds, i \in 0 .. NV, b \in BOOLEAN, sg \in BOOLEAN,
             obs \in BOOLEAN :
             DealerResponseCall(ResponseInput(dealer[1], dagg, sk, i, b, sg), obs)
    \/ /\ ret.op = "none" /\ focus = "verifier" /\ dealer # Nil
       /\ \E k \in 1 .. NV, c \in DealKinds, ek \in EncKinds, obs \in BOOLEAN :
             /\ ek # "sealed" => (k = self + 1 /\ c.kind = "dealt")
             /\ VerifierDealCall(self, EncDealInput(dealer[1], self, k, c, ek), obs)
    \/ /\ ret.op = "none" /\ focus = "verifier" /\ dealer # Nil
       /\ \E sk \in SidKinds, i \in 0 .. NV, b \in BOOLEAN, sg \in BOOLEAN,
             obs \in BOOLEAN :
             VerifierResponseCall(self,
                 ResponseInput(dealer[1], vagg[self], sk, i, b, sg), obs)
    \/ /\ ret.op = "none" /\ focus = "verifier" /\ dealer # Nil
       /\ \E i \in 0 .. NV, k \in 1 .. NV, c \in DealKinds, obs \in BOOLEAN :
             /\ i = k - 1 \/ c.kind = "dealt"
             /\ VerifierJustificationCall(self,
                    JustificationInput(dealer[1], i, k, c), obs)
    \/ /\ ret.op = "none" /\ focus = "dealer" /\ dealer # Nil
       /\ SecretCommitCall
    \/ /\ ret.op = "none" /\ focus = "dealer" /\ dealer # Nil
       /\ CommitsCall
    \/ /\ ret.op = "none" /\ focus = "verifier" /\ dealer # Nil
       /\ VerifierDealAccess(self)
    \/ /\ ret.op = "none" /\ focus = "verifier" /\ dealer # Nil
       /\ \E q \in VerifierAccessors : VerifierAccess(self, q)
    \/ /\ ret.op = "none" /\ focus = "dealer" /\ dealer # Nil
       /\ \E c \in VerifyDealKinds, b \in BOOLEAN, obs \in BOOLEAN :
             DealerVerifyDealCall(DealInput(dealer[1], 1, c), b, obs)
    \/ /\ ret.op = "none" /\ focus = "verifier" /\ dealer # Nil
       /\ \E c \in VerifyDealKinds, b \in BOOLEAN, obs \in BOOLEAN :
             VerifierVerifyDealCall(self, DealInput(dealer[1], self + 1, c), b, obs)

Spec == Init /\ [][Next]_vars

\* The aggregator pointer of the instance the run drives.
Agg == IF focus = "dealer" THEN dagg ELSE vagg[self]

\* The aggregator pointer of the instance a call was made on.
AggOf(who) == IF who = DealerPub THEN dagg ELSE vagg[who]

\* The number of responses an aggregator stores with the given verdict.
Stored(a, verdict) ==
    Cardinality({i \in DOMAIN a.responses :
                    a.responses[i] # Nil /\ a.responses[i][1].Approved = verdict})

-----------------------------------------------------------------------------
(* Properties of the protocol under Spec *)

\* The checks of a deal: T within [2, n], both shares carrying one index
\* within [0, n), and f_i*B + g_i*H equal to the commitment polynomial
\* evaluated at that index.
DealPasses(d) ==
    /\ 2 <= d.T /\ d.T <= NV
    /\ d.SecShare.I = d.RndShare.I
    /\ 0 <= d.SecShare.I /\ d.SecShare.I < NV
    /\ AddQ(MulQ(d.SecShare.V, Base), MulQ(d.RndShare.V, HBase))
          = PubEval(NewPubPoly(Nil, d.Commitments), d.SecShare.I).V

\* An observed ProcessEncryptedDeal call on a verifier without a deal that
\* decrypted a deal carrying the verifier's index.
FirstDealCall ==
    /\ ret.op = "ProcessEncryptedDeal"
    /\ ret.pre = Nil
    /\ decryptDeal(ret.who, ret.in).err = ""
    /\ ret.in.Deal.SecShare.I = ret.who

\* C3: when ProcessEncryptedDeal decrypts a first deal carrying the
\* verifier's own index, it returns and stores a Response whose approved flag
\* is true exactly when the deal passes the checks of VerifyDeal; the deal an
\* honest NewDealer built for the verifier is approved.
C3_ApprovedIffDealPasses ==
    FirstDealCall =>
        /\ ret.err = "" /\ ret.out # Nil
        /\ ret.out[1].Index = ret.who
        /\ ret.out[1].Approved = DealPasses(ret.in.Deal)
        /\ vagg[ret.who] # Nil
        /\ vagg[ret.who][1].responses[ret.who] = ret.out
        /\ (ret.in.Deal = dealer[1].deals[ret.who + 1] => ret.out[1].Approved)

\* A first deal whose T and indices are valid but whose share does not match
\* the commitments: the verifier answers with a complaint.
C3_Witness ==
    /\ FirstDealCall
    /\ validT(ret.in.Deal.T, NV)
    /\ ret.in.Deal.SecShare.I = ret.in.Deal.RndShare.I
    /\ ret.out # Nil /\ ~ret.out[1].Approved
    /\ vagg[ret.who][1].responses[ret.who] = ret.out

\* C4: on every instance holding an aggregator, EnoughApprovals() is true
\* if and only if at least t stored responses are approvals; so it is true
\* with exactly t approvals and false with t-1.
C4_EnoughApprovalsIffCount ==
    \A who \in Verifiers \cup {DealerPub} :
        LET ao == AggOf(who)
        IN  ao # Nil =>
                /\ EnoughApprovals(ao[1]) <=> (Stored(ao[1], TRUE) >= ao[1].t)
                /\ Stored(ao[1], TRUE) = ao[1].t => EnoughApprovals(ao[1])
                /\ Stored(ao[1], TRUE) = ao[1].t - 1 => ~EnoughApprovals(ao[1])

\* An aggregator of threshold 2 that stores exactly 2 approvals.
C4_Witness ==
    /\ Agg # Nil /\ Agg[1].t = 2
    /\ Stored(Agg[1], TRUE) = 2
    /\ EnoughApprovals(Agg[1])

\* C5: on every instance holding an aggregator, DealCertified() is true if
\* and only if EnoughApprovals() is true, fewer than t stored responses are
\* complaints, and badDealer is false.
C5_DealCertifiedIff ==
    \A who \in Verifiers \cup {DealerPub} :
        LET ao == AggOf(who)
        IN  ao # Nil =>
                (DealCertified(ao) <=>
                    /\ EnoughApprovals(ao[1])
                    /\ Stored(ao[1], FALSE) < ao[1].t
                    /\ ~ao[1].badDealer)

\* Enough approvals and fewer than t complaints, yet no certification,
\* because badDealer is set.
C5_Witness ==
    /\ Agg # Nil /\ Agg[1].badDealer
    /\ EnoughApprovals(Agg[1])
    /\ Stored(Agg[1], FALSE) < Agg[1].t
    /\ ~DealCertified(Agg)

\* An observed ProcessJustification call that reached VerifyDeal: the index
\* is in range and the response stored for it is a complaint.
JustifiedComplaintCall ==
    /\ ret.op = "ProcessJustification"
    /\ ret.pre # Nil
    /\ ret.in.Index < NV
    /\ ret.pre[1].responses[ret.in.Index] # Nil
    /\ ~ret.pre[1].responses[ret.in.Index][1].Approved

\* The call failed because the deal of the justification does not pass
\* VerifyDeal.
C6_FailedJustification ==
    /\ JustifiedComplaintCall
    /\ VerifyDeal(ret.pre[1], ret.in.Deal, FALSE).err # ""

C6_Latched(ao) == ao # Nil /\ ao[1].badDealer

\* C6: a ProcessJustification call that fails because the deal of the
\* justification does not pass VerifyDeal returns the error and sets
\* badDealer; badDealer, once true, stays true whatever is processed
\* afterwards; and DealCertified() is false whenever badDealer is true.
C6_BadDealerLatch ==
    /\ [](C6_FailedJustification =>
            (ret.err # "" /\ C6_Latched(vagg[ret.who])))
    /\ [](\A v \in Verifiers : C6_Latched(vagg[v]) => ~DealCertified(vagg[v]))
    /\ [][\A v \in Verifiers : C6_Latched(vagg[v]) => C6_Latched(vagg'[v])]_vars

\* After an invalid justification the verifier has collected t approvals
\* (the complaint aside) and is still not certified.
C6_Witness ==
    /\ focus = "verifier" /\ C6_Latched(vagg[self])
    /\ EnoughApprovals(vagg[self][1])
    /\ Stored(vagg[self][1], FALSE) = 1
    /\ ~DealCertified(vagg[self])

\* C7: if the response stored for j.Index is a complaint and the deal of j
\* passes VerifyDeal, ProcessJustification returns no error and turns that
\* stored response into an approval: one complaint less, one approval more,
\* every other stored response and badDealer as before.
C7_JustificationFlipsComplaint ==
    (/\ JustifiedComplaintCall
     /\ VerifyDeal(ret.pre[1], ret.in.Deal, FALSE).err = "")
    => LET a == ret.pre[1]
           b == vagg[ret.who][1]
           i == ret.in.Index
       IN  /\ ret.err = ""
           /\ b.responses[i] = <<[a.responses[i][1] EXCEPT !.Approved = TRUE]>>
           /\ \A k \in Verifiers \ {i} : b.responses[k] = a.responses[k]
           /\ b.badDealer = a.badDealer
           /\ Stored(b, FALSE) = Stored(a, FALSE) - 1
           /\ Stored(b, TRUE) = Stored(a, TRUE) + 1

\* A complaint of another verifier is answered by the deal the dealer built
\* for it, and the flip completes the certification.
C7_Witness ==
    /\ JustifiedComplaintCall
    /\ ret.err = ""
    /\ ret.in.Index # ret.who
    /\ ~DealCertified(ret.pre)
    /\ DealCertified(vagg[ret.who])

\* An observed ProcessResponse call on an instance holding an aggregator.
ResponseCall == ret.op = "ProcessResponse" /\ ret.pre # Nil

\* A response for index i that the aggregator a has every reason to accept.
FreshResponse(a, i, verdict) ==
    [SessionID |-> a.sid, Index |-> i, Approved |-> verdict,
     Signer |-> VerifiersPub[i + 1]]

\* C8: ProcessResponse, on a Dealer or a Verifier, returns an error for a
\* response whose index already has a stored response and leaves the
\* aggregator as it was; and in every state a correctly signed response with
\* the aggregator's session id for an index without a stored response is
\* accepted, so the failure does not latch.  (A call leaves the instances
\* in the same state whether or not it is observed, so the states in which
\* no call is observed are all the states of the instances.)
C8_DuplicateResponseRejected ==
    /\ (ResponseCall /\ ret.in.Index < NV
        /\ ret.pre[1].responses[ret.in.Index] # Nil)
       => (ret.err # "" /\ ret.out = Nil /\ AggOf(ret.who) = ret.pre)
    /\ ret.op = "none" =>
       \A who \in Verifiers \cup {DealerPub} :
          \A i \in Verifiers : \A verdict \in BOOLEAN :
             (AggOf(who) # Nil /\ AggOf(who)[1].responses[i] = Nil)
             => LET a == AggOf(who)[1]
                    vr == verifyResponse(a, FreshResponse(a, i, verdict))
                IN  vr.err = "" /\ vr.agg.responses[i] # Nil

\* The very response that is stored is delivered again, while another index
\* is still free.
C8_Witness ==
    /\ ResponseCall /\ ret.in.Index < NV
    /\ ret.pre[1].responses[ret.in.Index] = <<ret.in>>
    /\ ret.err = "vss: already existing response from same origin"
    /\ \E i \in Verifiers : AggOf(ret.who)[1].responses[i] = Nil

\* C9: ProcessResponse returns an error for every response whose session id
\* differs from the sid of the aggregator, and stores nothing, even when the
\* response is signed by the verifier at its index.
C9_ForeignSessionRejected ==
    (ResponseCall /\ ret.in.SessionID # ret.pre[1].sid)
    => (ret.err # "" /\ AggOf(ret.who) = ret.pre)

\* A correctly signed response for a free index with another session id.
C9_Witness ==
    /\ ResponseCall /\ ret.in.SessionID # ret.pre[1].sid
    /\ ret.in.Index < NV
    /\ ret.in.Signer = VerifiersPub[ret.in.Index + 1]
    /\ ret.pre[1].responses[ret.in.Index] = Nil
    /\ ret.err = "vss: receiving inconsistent sessionID in response"

\* C10: NewDealer returns a Dealer if and only if 2 <= t <= n and t fits in
\* the 32-bit word; for every other t it returns an error and no Dealer.
C10_NewDealerIffValidT ==
    ret.op = "NewDealer" =>
        LET ok == 2 <= ret.in /\ ret.in <= NV /\ ret.in < WordMod
        IN  /\ ok => (ret.err = "" /\ dealer # Nil /\ dealer[1].t = ret.in)
            /\ ~ok => (ret.err # "" /\ dealer = Nil /\ dagg = Nil)

\* The smallest threshold is accepted.
C10_Witness ==
    /\ ret.op = "NewDealer" /\ ret.in = 2
    /\ ret.err = "" /\ dealer # Nil

\* C11: NewDealer returns an error, and no Dealer, if the threshold t is
\* inferior or equal to 2.
C11_ErrorIfTAtMostTwo ==
    (ret.op = "NewDealer" /\ ret.in <= 2) => (ret.err # "" /\ dealer = Nil)

\* An observed ProcessEncryptedDeal call that decrypted a deal carrying the
\* verifier's index whose SessionID field is not the session id recomputed
\* from the dealer key, the verifier list, d.Commitments and d.T.
ForeignSidDealCall ==
    /\ ret.op = "ProcessEncryptedDeal"
    /\ decryptDeal(ret.who, ret.in).err = ""
    /\ ret.in.Deal.SecShare.I = ret.who
    /\ ret.in.Deal.SessionID #
          sessionID(DealerPub, VerifiersPub, ret.in.Deal.Commitments,
                    ret.in.Deal.T)

\* C13: ProcessEncryptedDeal requires the SessionID of the deal to equal the
\* session id it recomputes: a decrypted deal whose SessionID differs from
\* it never results in an approval and never becomes the session id of the
\* verifier's aggregator.
C13_DealSessionIdRequired ==
    ForeignSidDealCall =>
        /\ ret.out = Nil \/ ~ret.out[1].Approved
        /\ (ret.pre = Nil /\ vagg[ret.who] # Nil)
              => vagg[ret.who][1].sid # ret.in.Deal.SessionID

\* An observed ProcessEncryptedDeal call on a verifier that has recorded a
\* deal, with an encrypted deal that decrypts and carries the verifier's
\* index.
LaterDealCall ==
    /\ ret.op = "ProcessEncryptedDeal"
    /\ ret.pre # Nil /\ ret.pre[1].deal # Nil
    /\ decryptDeal(ret.who, ret.in).err = ""
    /\ ret.in.Deal.SecShare.I = ret.who

\* C14: after a verifier has recorded a deal, every later
\* ProcessEncryptedDeal call that decrypts and carries the verifier's index
\* returns the error of a deal already processed and no Response, and leaves
\* the aggregator (recorded deal, commitments, sid, stored responses,
\* badDealer) as it was.
C14_DealAlreadyProcessed ==
    LaterDealCall =>
        /\ ret.err = "vss: verifier already received a deal"
        /\ ret.out = Nil
        /\ vagg[ret.who] = ret.pre

\* The verifier complained about its first deal and is now handed the deal
\* the dealer built for it.
C14_Witness ==
    /\ LaterDealCall
    /\ ret.pre[1].responses[ret.who] # Nil
    /\ ~ret.pre[1].responses[ret.who][1].Approved
    /\ ret.in.Deal = dealer[1].deals[ret.who + 1]
    /\ ret.in.Deal # ret.pre[1].deal[1]
    /\ ret.err = "vss: verifier already received a deal"

\* An observed ProcessEncryptedDeal call with an encrypted deal that the
\* dealer did not sign, that does not open under the verifier's key, that
\* does not decode, or whose deal carries another index than the verifier's.
RefusedDealCall ==
    /\ ret.op = "ProcessEncryptedDeal"
    /\ \/ ret.in.Signature # DealerPub
       \/ ret.in.To # ret.who
       \/ ret.in.Cipher \in {"tampered", "undecodable"}
       \/ ret.in.Deal.SecShare.I # ret.who

\* C15: if the dealer's signature on the ephemeral key does not verify, the
\* AEAD open fails, the decoding fails or the decrypted deal's SecShare.I
\* differs from the verifier's index, ProcessEncryptedDeal returns an error
\* and no Response and leaves the verifier as it was (no aggregator created,
\* no deal recorded, no response stored); a verifier without aggregator,
\* after such calls as before them, processes the deal the dealer built for
\* it with an approval.
C15_RefusedDealLeavesNoTrace ==
    /\ RefusedDealCall =>
          (ret.err # "" /\ ret.out = Nil /\ vagg[ret.who] = ret.pre)
    /\ (focus = "verifier" /\ dealer # Nil /\ vagg[self] = Nil) =>
          LET p == ProcessEncryptedDeal(self, VerifiersPub, Nil, EncryptedDeal(dealer[1], self))
          IN  /\ p.err = "" /\ p.resp # Nil /\ p.resp[1].Approved
              /\ p.agg # Nil /\ p.agg[1].deal = <<dealer[1].deals[self + 1]>>

\* A deal for the verifier that the dealer did not sign reached a verifier
\* without a deal, which still has no aggregator.
C15_Witness ==
    /\ RefusedDealCall
    /\ ret.in.Signature # DealerPub /\ ret.in.To = ret.who
    /\ ret.in.Deal = dealer[1].deals[ret.who + 1]
    /\ ret.pre = Nil /\ vagg[ret.who] = Nil
    /\ ret.err = "schnorr: invalid signature"

\* A response the aggregator a has to accept: its session id is a's, its
\* index is in the verifier list, the verifier at that index signed it, and
\* no response is stored for the index.
ValidResponse(a, r) ==
    /\ r.SessionID = a.sid
    /\ 0 <= r.Index /\ r.Index < Len(a.verifiers)
    /\ r.Signer = a.verifiers[r.Index + 1]
    /\ a.responses[r.Index] = Nil

\* C16: Dealer.ProcessResponse returns neither a justification nor an error
\* for a valid approval; for a valid complaint it returns a Justification
\* with the dealer's session id, the index r.Index and the dealer's original
\* deal for that index; for an invalid response (wrong session id, index out
\* of range, bad signature, duplicate index) it returns an error and no
\* Justification.
C16_DealerProcessResponse ==
    (ret.op = "ProcessResponse" /\ ret.who = DealerPub) =>
        LET r == ret.in
            valid == ValidResponse(ret.pre[1], r)
        IN  /\ (valid /\ r.Approved) => (ret.err = "" /\ ret.out = Nil)
            /\ (valid /\ ~r.Approved) =>
                  /\ ret.err = "" /\ ret.out # Nil
                  /\ ret.out[1].SessionID = dealer[1].sessionID
                  /\ ret.out[1].Index = r.Index
                  /\ ret.out[1].Deal = dealer[1].deals[r.Index + 1]
                  /\ ret.out[1].Signer = DealerPub
            /\ ~valid => (ret.err # "" /\ ret.out = Nil)

\* The dealer justifies the complaint of the verifier at index 1 after it
\* has stored another response.
C16_Witness ==
    /\ ret.op = "ProcessResponse" /\ ret.who = DealerPub
    /\ ret.in.Index = 1 /\ ~ret.in.Approved
    /\ ret.pre[1].responses[0] # Nil
    /\ ret.err = "" /\ ret.out # Nil
    /\ ret.out[1].Deal.SecShare.I = 1

\* An observed ProcessJustification call on a verifier that stores no
\* response for the index of the justification, or stores an approval.
UncomplainedJustificationCall ==
    /\ ret.op = "ProcessJustification"
    /\ \/ ret.pre = Nil
       \/ ret.in.Index >= NV
       \/ ret.pre[1].responses[ret.in.Index] = Nil
       \/ ret.pre[1].responses[ret.in.Index][1].Approved

\* The call returned an error to its caller.
ReturnedError == ret.err # "" /\ ret.err # "panic: nil pointer dereference"

\* C17: ProcessJustification for an index that has no stored response, or
\* whose stored response is already approved, returns an error and leaves
\* the stored responses and badDealer unchanged.
C17_JustificationNeedsComplaint ==
    UncomplainedJustificationCall => (ReturnedError /\ vagg[ret.who] = ret.pre)

\* Both predicates the accessors test hold on the aggregator ao.
Certified(ao) == ao # Nil /\ EnoughApprovals(ao[1]) /\ DealCertified(ao)

\* C18: Dealer.SecretCommit(), Dealer.Commits() and Verifier.Deal() return
\* nil in every state in which EnoughApprovals() or DealCertified() is
\* false, and return the secret commitment s*B, the commitments of f (the
\* points whose polynomial takes the value f(i+1)*B at every index i, f(i+1)
\* being the secret share of deal i), and the recorded deal when both hold.
C18_AccessorsGatedByCertification ==
    /\ ret.op = "SecretCommit" =>
          ret.out = IF Certified(dagg)
                    THEN <<(dealer[1].secret * Base) % Q>> ELSE Nil
    /\ ret.op = "Commits" =>
          IF Certified(dagg)
          THEN /\ ret.out # Nil
               /\ Len(ret.out[1]) = dealer[1].t
               /\ \A i \in Verifiers :
                     PubEval(NewPubPoly(Nil, ret.out[1]), i).V
                        = (dealer[1].deals[i + 1].SecShare.V * Base) % Q
          ELSE ret.out = Nil
    /\ ret.op = "Deal" =>
          /\ ret.err = ""
          /\ ret.out = IF Certified(vagg[ret.who])
                       THEN vagg[ret.who][1].deal ELSE Nil


\* The calls a Verifier offers once it has been created.
VerifierCalls ==
    {"SessionID", "Deal", "EnoughApprovals", "DealCertified",
     "ProcessResponse", "ProcessJustification"}

\* C25: on a Verifier that has processed no deal yet no call panics:
\* SessionID() returns a nil slice, Deal() returns nil, EnoughApprovals() and
\* DealCertified() return false, and ProcessResponse and
\* ProcessJustification return an error.
C25_FreshVerifierIsSafe ==
    (/\ ret.op \in VerifierCalls
     /\ ret.who \in Verifiers
     /\ ret.pre = Nil)
    => /\ ret.err # "panic: nil pointer dereference"
       /\ ret.op \in {"SessionID", "Deal"} => (ret.err = "" /\ ret.out = Nil)
       /\ ret.op \in {"EnoughApprovals", "DealCertified"} =>
             (ret.err = "" /\ ret.out = <<FALSE>>)
       /\ ret.op \in {"ProcessResponse", "ProcessJustification"} => ret.err # ""

-----------------------------------------------------------------------------
(* Specification of certification: a dealing among NV + 1 verifiers, the   *)
(* least number for which t approvals and t complaints fit beside each     *)
(* other (t = 2), after which the Dealer, or the Verifier at index 0 once  *)
(* it holds its deal, is handed responses.                                 *)

\* The verifier list of this run: the keys of the runs above and one more,
\* which is neither the dealer's key nor NoKey.
CertVerifiers == [k \in 1 .. (NV + 1) |-> IF k <= NV THEN k - 1 ELSE NV + 2]

CertInit ==
    /\ ShareIdle
    /\ dealer = Nil /\ dagg = Nil
    /\ vagg = [v \in Verifiers |-> Nil]
    /\ focus \in {"dealer", "verifier"} /\ self = 0
    /\ ret = NoRet
    /\ net = NoNet

\* d, err := NewDealer(suite, longterm, secret, verifiers, r, t), t valid
CertNewDealer(secret, rnd, t) ==
    /\ ret.op = "none" /\ dealer = Nil
    /\ validT(t, Len(CertVerifiers))
    /\ LET n == NewDealer(secret, CertVerifiers, rnd, t)
       IN  dealer' = n.d /\ dagg' = n.agg
    /\ UNCHANGED <<shareVars, self, vagg, focus, ret, net>>

CertNext ==
    \/ /\ ret.op = "none" /\ dealer = Nil
       /\ \E secret \in DealerSecrets, rnd \in DealerStreams, t \in 2 .. NV :
             CertNewDealer(secret, rnd, t)
    \/ /\ ret.op = "none" /\ focus = "verifier" /\ dealer # Nil
       /\ VerifierDealCall(self, EncryptedDeal(dealer[1], self), FALSE)
    \/ /\ ret.op = "none" /\ focus = "dealer" /\ dealer # Nil
       /\ \E sk \in SidKinds, i \in 0 .. (NV + 1), b \in BOOLEAN, sg \in BOOLEAN,
             obs \in BOOLEAN :
             DealerResponseCall(ResponseInput(dealer[1], dagg, sk, i, b, sg), obs)
    \/ /\ ret.op = "none" /\ focus = "verifier" /\ dealer # Nil
       /\ \E sk \in SidKinds, i \in 0 .. (NV + 1), b \in BOOLEAN, sg \in BOOLEAN,
             obs \in BOOLEAN :
             VerifierResponseCall(self,
                 ResponseInput(dealer[1], vagg[self], sk, i, b, sg), obs)

SpecCert == CertInit /\ [][CertNext]_vars

\* An observed ProcessResponse call with a valid response (correctly signed,
\* carrying the session id of the aggregator, for an index without a stored
\* response) on an instance whose deal was certified before the call.
ValidResponseOnCertified ==
    /\ ResponseCall
    /\ DealCertified(ret.pre)
    /\ ValidResponse(ret.pre[1], ret.in)

\* C26 as stated: once DealCertified() is true it stays true after every
\* further valid response, approval or complaint.
C26_CertifiedStaysCertified ==
    ValidResponseOnCertified => DealCertified(AggOf(ret.who))

\* C26 amended: a valid response processed on a certified instance is stored,
\* and DealCertified() is true afterwards exactly when fewer than t
\* complaints are then stored; so it stays true after every valid approval,
\* and a valid complaint that brings the stored complaints to t makes it
\* false.
C26_CertifiedUntilTComplaints ==
    ValidResponseOnCertified =>
        LET b == AggOf(ret.who)[1]
        IN  /\ ret.err = ""
            /\ b.responses[ret.in.Index] = <<ret.in>>
            /\ DealCertified(AggOf(ret.who)) <=> Stored(b, FALSE) < b.t
            /\ ret.in.Approved => DealCertified(AggOf(ret.who))

\* An instance of a dealing with the valid threshold 2, certified by two
\* approvals and holding one complaint, processes a valid complaint, its
\* second, and is not certified afterwards.
C26_Witness ==
    /\ ValidResponseOnCertified
    /\ ~ret.in.Approved
    /\ dealer[1].t = 2 /\ ret.pre[1].t = 2
    /\ Stored(ret.pre[1], TRUE) = 2 /\ Stored(ret.pre[1], FALSE) = 1
    /\ Stored(AggOf(ret.who)[1], FALSE) = 2
    /\ ~DealCertified(AggOf(ret.who))

\* An observed call of one of the methods that change an aggregator, on an
\* instance that held an aggregator before the call.
ProcessingCall ==
    /\ ret.op \in {"ProcessEncryptedDeal", "ProcessResponse", "ProcessJustification"}
    /\ ret.pre # Nil

\* C27: a stored response is never removed or replaced, and its Approved
\* flag only changes from false to true; hence EnoughApprovals(), once true,
\* is true after every later call.
C27_StoredResponsesMonotonic ==
    ProcessingCall =>
        /\ AggOf(ret.who) # Nil
        /\ LET a == ret.pre[1]
               b == AggOf(ret.who)[1]
           IN  /\ \A i \in Verifiers : a.responses[i] # Nil =>
                     /\ b.responses[i] # Nil
                     /\ b.responses[i][1].SessionID = a.responses[i][1].SessionID
                     /\ b.responses[i][1].Index = a.responses[i][1].Index
                     /\ b.responses[i][1].Signer = a.responses[i][1].Signer
                     /\ a.responses[i][1].Approved => b.responses[i][1].Approved
               /\ EnoughApprovals(a) => EnoughApprovals(b)

\* A justification turns the stored complaint of a verifier that already has
\* enough approvals into an approval.
C27_Witness ==
    /\ ret.op = "ProcessJustification" /\ ret.pre # Nil /\ ret.err = ""
    /\ EnoughApprovals(ret.pre[1])
    /\ ~ret.pre[1].responses[ret.in.Index][1].Approved
    /\ AggOf(ret.who)[1].responses[ret.in.Index][1].Approved
    /\ Stored(AggOf(ret.who)[1], TRUE) = NV

\* C28: the deal is set exactly once: after an aggregator has recorded a
\* deal, no ProcessEncryptedDeal, ProcessResponse or ProcessJustification
\* call changes the recorded deal, the commitments or the session id.
C28_DealRecordedOnce ==
    (ProcessingCall /\ ret.pre[1].deal # Nil) =>
        /\ AggOf(ret.who) # Nil
        /\ AggOf(ret.who)[1].deal = ret.pre[1].deal
        /\ AggOf(ret.who)[1].commits = ret.pre[1].commits
        /\ AggOf(ret.who)[1].sid = ret.pre[1].sid

\* A justification carrying a deal with other shares than the recorded one
\* is accepted, and the recorded deal stays.
C28_Witness ==
    /\ ret.op = "ProcessJustification" /\ ret.pre # Nil /\ ret.err = ""
    /\ ret.pre[1].deal # Nil
    /\ ret.in.Deal.SecShare # ret.pre[1].deal[1].SecShare
    /\ AggOf(ret.who)[1].deal = ret.pre[1].deal

\* C29: every response stored in an aggregator, the verifier's own response
\* inserted by ProcessEncryptedDeal included, has an index within [0, n),
\* carries the session id of the aggregator, and is the one response stored
\* for its index.
C29_StoredResponsesWellFormed ==
    \A who \in Verifiers \cup {DealerPub} :
        AggOf(who) # Nil =>
            LET a == AggOf(who)[1]
            IN  \A i \in DOMAIN a.responses : a.responses[i] # Nil =>
                    /\ 0 <= i /\ i < NV
                    /\ Len(a.responses[i]) = 1
                    /\ a.responses[i][1].Index = i
                    /\ a.responses[i][1].SessionID = a.sid

\* C32: VerifyDeal rejects every deal whose T is outside [2, n] or differs
\* from the threshold t of the aggregator, on the ProcessEncryptedDeal path
\* (the Response is a complaint) and on the ProcessJustification path (the
\* call returns an error and the stored complaint stays a complaint).
C32_DealThresholdChecked ==
    /\ (FirstDealCall /\ ~(2 <= ret.in.Deal.T /\ ret.in.Deal.T <= NV)) =>
          (ret.out # Nil /\ ~ret.out[1].Approved)
    /\ (/\ JustifiedComplaintCall
        /\ \/ ~(2 <= ret.in.Deal.T /\ ret.in.Deal.T <= NV)
           \/ ret.in.Deal.T # ret.pre[1].t) =>
          /\ ret.err # ""
          /\ ~vagg[ret.who][1].responses[ret.in.Index][1].Approved

\* C34: a deal returned by Verifier.Deal() passes the checks of VerifyDeal
\* (T and indices valid, shares consistent with its commitments), also on a
\* verifier that complained about its deal and was justified later.
C34_ReturnedDealPasses ==
    (ret.op = "Deal" /\ ret.out # Nil) => DealPasses(ret.out[1])

\* An observed ProcessJustification call that turned the complaint stored
\* for j.Index into an approval.
ComplaintFlipped ==
    /\ JustifiedComplaintCall
    /\ vagg[ret.who][1].responses[ret.in.Index][1].Approved

\* C35: ProcessJustification turns the complaint stored for j.Index into an
\* approval only if the deal of the justification is the deal of that
\* verifier, j.Deal.SecShare.I = j.Index; the valid deal of another verifier
\* clears no complaint.
C35_JustificationForOwnIndex ==
    ComplaintFlipped => ret.in.Deal.SecShare.I = ret.in.Index

\* C36: ProcessJustification turns a stored complaint into an approval only
\* if the commitments of the justification's deal are the commitments the
\* aggregator already holds for the session; a deal that is consistent with
\* another commitment vector clears no complaint.
C36_JustificationOnHeldCommitments ==
    ComplaintFlipped => ret.in.Deal.Commitments = ret.pre[1].commits

\* C38: the threshold of every initialized aggregator, the Dealer's and each
\* Verifier's, lies in 2 .. n, so that EnoughApprovals needs at least two
\* stored approvals; a deal with an invalid T does not lower the quorum.
C38_AggregatorThresholdValid ==
    /\ dagg # Nil => (2 <= dagg[1].t /\ dagg[1].t <= NV)
    /\ \A v \in Verifiers :
          vagg[v] # Nil => (2 <= vagg[v][1].t /\ vagg[v][1].t <= NV)

-----------------------------------------------------------------------------
(* Specification of the honest run: a Dealer created with a valid          *)
(* threshold, every Verifier processing the encrypted deal the Dealer      *)
(* sealed for it, and every resulting Response being processed by the      *)
(* Dealer and by every other Verifier, in any order.  A Verifier processes *)
(* responses once it holds its deal.                                       *)

LiveInit ==
    /\ ShareIdle
    /\ dealer = Nil /\ dagg = Nil
    /\ vagg = [v \in Verifiers |-> Nil]
    /\ focus = "all" /\ self = 0
    /\ ret = NoRet
    /\ net = NoNet

\* d, err := NewDealer(suite, longterm, secret, verifiers, r, t), t valid
LiveNewDealer(secret, rnd, t) ==
    /\ dealer = Nil
    /\ validT(t, NV)
    /\ LET n == NewDealer(secret, VerifiersPub, rnd, t)
       IN  dealer' = n.d /\ dagg' = n.agg
    /\ UNCHANGED <<shareVars, self, vagg, focus, ret, net>>

\* e, _ := dealer.EncryptedDeal(v); r, err := verifier_v.ProcessEncryptedDeal(e)
\* and r is broadcast.
LiveProcessDeal(v) ==
    /\ dealer # Nil
    /\ vagg[v] = Nil
    /\ LET p == ProcessEncryptedDeal(v, VerifiersPub, vagg[v], EncryptedDeal(dealer[1], v))
       IN  /\ vagg' = [vagg EXCEPT ![v] = p.agg]
           /\ net' = [net EXCEPT !.resp[v] = p.resp]
    /\ UNCHANGED <<shareVars, dealer, dagg, self, focus, ret>>

\* The response of verifier i reaches the Dealer: dealer.ProcessResponse(r)
LiveDealerResponse(i) ==
    /\ net.resp[i] # Nil
    /\ <<i, DealerPub>> \notin net.seen
    /\ net' = [net EXCEPT !.seen = @ \cup {<<i, DealerPub>>}]
    /\ dagg' = <<DealerProcessResponse(dealer[1], dagg[1], net.resp[i][1]).agg>>
    /\ UNCHANGED <<shareVars, dealer, self, vagg, focus, ret>>

\* The response of verifier i reaches verifier v: verifier_v.ProcessResponse(r)
LiveVerifierResponse(i, v) ==
    /\ i # v
    /\ net.resp[i] # Nil
    /\ <<i, v>> \notin net.seen
    /\ vagg[v] # Nil
    /\ net' = [net EXCEPT !.seen = @ \cup {<<i, v>>}]
    /\ vagg' = [vagg EXCEPT ![v] = <<verifyResponse(vagg[v][1], net.resp[i][1]).agg>>]
    /\ UNCHANGED <<shareVars, dealer, dagg, self, focus, ret>>

LiveNext ==
    \/ \E secret \in DealerSecrets, rnd \in DealerStreams, t \in TInputs :
          LiveNewDealer(secret, rnd, t)
    \/ \E v \in Verifiers : LiveProcessDeal(v)
    \/ \E i \in Verifiers : LiveDealerResponse(i)
    \/ \E i \in Verifiers, v \in Verifiers : LiveVerifierResponse(i, v)

\* Every call that can be made is eventually made.
SpecLive == LiveInit /\ [][LiveNext]_vars /\ WF_vars(LiveNext)

\* Every verifier has processed its deal and every response has been
\* processed by the Dealer and by every other verifier.
AllDelivered ==
    /\ dealer # Nil
    /\ \A v \in Verifiers : vagg[v] # Nil /\ net.resp[v] # Nil
    /\ \A i \in Verifiers :
          /\ <<i, DealerPub>> \in net.seen
          /\ \A v \in Verifiers \ {i} : <<i, v>> \in net.seen

AllCertified ==
    /\ DealCertified(dagg)
    /\ \A v \in Verifiers : DealCertified(vagg[v])

\* C2: in the honest run (a Dealer with a valid t, every verifier processing
\* its own encrypted deal, every response delivered to the Dealer and to
\* every other verifier, in any order) the deliveries are eventually
\* complete, and DealCertified() is then true on the Dealer and on every
\* verifier and stays true.
C2_HonestRunCertifies ==
    /\ <>AllDelivered
    /\ [](AllDelivered => AllCertified)
    /\ <>[]AllCertified

\* The run with the largest threshold complete: all are certified.
C2_Witness ==
    /\ focus = "all" /\ AllDelivered /\ AllCertified
    /\ dealer[1].t = NV
    /\ \A v \in Verifiers : Stored(vagg[v][1], TRUE) = NV

-----------------------------------------------------------------------------
(* Specification of the polynomial layer: a polynomial is created, shared, *)
(* some shares are dropped, and the secret is reconstructed.               *)

VssIdle ==
    /\ dealer = Nil /\ dagg = Nil /\ self = 0
    /\ vagg = [v \in Verifiers |-> Nil]
    /\ focus = "share"
    /\ ret = NoRet
    /\ net = NoNet

ShareInit ==
    /\ \E t \in 1 .. MaxN, s \in Scalars, rnd \in [1 .. (MaxN - 1) -> Scalars] :
          poly = NewPriPoly(t, <<s>>, rnd)
    /\ shares = <<>>
    /\ recovered = NoRecovery
    /\ VssIdle

\* shares := p.Shares(n)
DoShares(n) ==
    /\ shares = <<>> /\ ~recovered.done
    /\ shares' = PriShares(poly, n)
    /\ UNCHANGED <<poly, recovered, vssVars>>

\* The caller replaces entry i of the list by nil.
DropShare(i) ==
    /\ ~recovered.done
    /\ i < Len(shares) /\ shares[i + 1] # Nil
    /\ shares' = [shares EXCEPT ![i + 1] = Nil]
    /\ UNCHANGED <<poly, recovered, vssVars>>

\* recovered := RecoverSecret(g, shares, t)
DoRecover(t) ==
    /\ ~recovered.done /\ Len(shares) > 0
    /\ LET r == RecoverSecret(shares, t)
       IN  recovered' = [t |-> t, err |-> r.err, v |-> r.v, done |-> TRUE]
    /\ UNCHANGED <<poly, shares, vssVars>>

ShareNext ==
    \/ \E n \in 1 .. MaxN : DoShares(n)
    \/ \E i \in 0 .. (MaxN - 1) : DropShare(i)
    \/ \E t \in 0 .. (MaxN + 1) : DoRecover(t)

SpecShare == ShareInit /\ [][ShareNext]_vars

NonNil(sh) == Cardinality({k \in 1 .. Len(sh) : sh[k] # Nil})

\* C1: for 2 <= t <= n, the shares of p = NewPriPoly(g, t, s, rand) with any
\* entries replaced by nil, at least t of them kept (each at the position of
\* its index), are recovered by RecoverSecret(g, shares, t) to the secret s.
C1_RecoverReturnsSecret ==
    (/\ recovered.done
     /\ recovered.t = Threshold(poly)
     /\ 2 <= recovered.t /\ recovered.t <= Len(shares)
     /\ NonNil(shares) >= recovered.t)
    => (recovered.err = "" /\ recovered.v = <<poly[1]>>)

\* Three shares of a polynomial of threshold 2 with the first one dropped.
C1_Witness ==
    /\ recovered.done /\ recovered.t = 2 /\ Threshold(poly) = 2
    /\ Len(shares) = 3 /\ shares[1] = Nil /\ NonNil(shares) = 2
    /\ poly[2] # 0
    /\ recovered.v = <<poly[1]>>

-----------------------------------------------------------------------------
(* Specification of the construction of a Verifier: NewVerifier is called  *)
(* with a long-term secret and a list of verifier keys, which may hold the *)
(* same key more than once or not hold the key of the caller.              *)

\* The verifier lists of the calls: up to NV points of the group.
KeyLists == UNION {[1 .. n -> Scalars] : n \in 0 .. NV}

KeysInit ==
    /\ ShareIdle
    /\ dealer = Nil /\ dagg = Nil /\ self = 0
    /\ vagg = [v \in Verifiers |-> Nil]
    /\ focus = "keys"
    /\ ret = NoRet
    /\ net = NoNet

\* v, err := NewVerifier(suite, longterm, dealerKey, verifiers)
NewVerifierCall(longterm, verifiers) ==
    /\ ret.op = "none"
    /\ LET n == NewVerifier(longterm, verifiers)
       IN  ret' = Ret("NewVerifier", 0,
                      [longterm |-> longterm, verifiers |-> verifiers],
                      Nil, n.err, n.v)
    /\ UNCHANGED <<shareVars, dealer, dagg, self, vagg, focus, net>>

KeysNext ==
    /\ ret.op = "none"
    /\ \E longterm \in Scalars, verifiers \in KeyLists :
          NewVerifierCall(longterm, verifiers)

SpecKeys == KeysInit /\ [][KeysNext]_vars

\* The positions (from 0) of the list entries equal to the public key of
\* the long-term secret.
KeyPositions(in) ==
    {i \in 0 .. (Len(in.verifiers) - 1) :
        in.verifiers[i + 1] = (in.longterm * Base) % Q}

\* C12: NewVerifier returns an error if and only if the public key
\* longterm*B does not occur in the verifier list; otherwise the Verifier's
\* Index() is the position of the first list entry equal to that key.
C12_NewVerifierIndex ==
    ret.op = "NewVerifier" =>
        /\ ret.err # "" <=> KeyPositions(ret.in) = {}
        /\ ret.err # "" => ret.out = Nil
        /\ ret.err = "" =>
              /\ ret.out # Nil
              /\ VerifierIndex(ret.out[1]) \in KeyPositions(ret.in)
              /\ \A k \in KeyPositions(ret.in) : VerifierIndex(ret.out[1]) <= k

\* The key stands twice in the list, and not at its head.
C12_Witness ==
    /\ ret.op = "NewVerifier" /\ ret.err = ""
    /\ Cardinality(KeyPositions(ret.in)) = 2
    /\ VerifierIndex(ret.out[1]) = 1

-----------------------------------------------------------------------------
(* Specification of the reconstruction: after a dealing, vss.RecoverSecret *)
(* is called with a list of deals of that dealing, in any order, some of   *)
(* them possibly carrying the session id of another run.                   *)

\* The deals a caller may hold: the deal of each verifier as dealt, or with
\* the session id of another run.
HeldDeals(d) ==
    {DealInput(d, k, [kind |-> x, T |-> 0]) :
        k \in 1 .. NV, x \in {"dealt", "SessionID"}}

\* The lists of up to NV deals a call is made with: any of the held deals
\* at any position, the same deal more than once included.
DealLists(d) == UNION {[1 .. m -> HeldDeals(d)] : m \in 0 .. NV}

RecoverInit ==
    /\ ShareIdle
    /\ dealer = Nil /\ dagg = Nil /\ self = 0
    /\ vagg = [v \in Verifiers |-> Nil]
    /\ focus = "recover"
    /\ ret = NoRet
    /\ net = NoNet

\* d, err := NewDealer(suite, longterm, secret, verifiers, r, t), t valid
RecoverDealing(secret, rnd, t) ==
    /\ ret.op = "none" /\ dealer = Nil
    /\ validT(t, NV)
    /\ LET n == NewDealer(secret, VerifiersPub, rnd, t)
       IN  dealer' = n.d /\ dagg' = n.agg
    /\ UNCHANGED <<shareVars, self, vagg, focus, ret, net>>

\* s, err := RecoverSecret(suite, deals, n, t)
RecoverCall(deals, t) ==
    /\ ret.op = "none" /\ dealer # Nil
    /\ \E r \in VssRecoverSecret(deals, NV, t) :
          ret' = Ret("RecoverSecret", 0,
                     [deals |-> deals, n |-> NV, t |-> t], Nil, r.err, r.v)
    /\ UNCHANGED <<shareVars, dealer, dagg, self, vagg, focus, net>>

RecoverNext ==
    \/ /\ ret.op = "none" /\ dealer = Nil
       /\ \E secret \in Scalars, rnd \in DealerStreams, t \in 2 .. NV :
             RecoverDealing(secret, rnd, t)
    \/ /\ ret.op = "none" /\ dealer # Nil
       /\ \E deals \in DealLists(dealer[1]), t \in 2 .. NV :
             RecoverCall(deals, t)

SpecRecover == RecoverInit /\ [][RecoverNext]_vars

\* Two of the deals of the list carry different session ids.
MixedSessions(deals) ==
    \E i, j \in 1 .. Len(deals) : deals[i].SessionID # deals[j].SessionID

\* C19: vss.RecoverSecret returns an error whenever two of the supplied
\* deals carry different session ids, and whenever fewer than t deals are
\* supplied; in neither case does it return a scalar.
C19_RecoverRejects ==
    (/\ ret.op = "RecoverSecret"
     /\ MixedSessions(ret.in.deals) \/ Len(ret.in.deals) < ret.in.t)
    => (ret.err # "" /\ ret.out = Nil)

\* Three deals for threshold 2 of which only the last one carries another
\* session id.
C19_Witness ==
    /\ ret.op = "RecoverSecret" /\ ret.in.t = 2
    /\ Len(ret.in.deals) = 3
    /\ ret.in.deals[1].SessionID = ret.in.deals[2].SessionID
    /\ ret.in.deals[3].SessionID # ret.in.deals[1].SessionID
    /\ ret.err = "vss: all deals need to have same session id"

\* An observed call with deals of the dealing, as dealt, and its threshold.
HonestRecoverCall ==
    /\ ret.op = "RecoverSecret"
    /\ ret.in.t = dealer[1].t
    /\ \A k \in 1 .. Len(ret.in.deals) :
          ret.in.deals[k] = dealer[1].deals[ret.in.deals[k].SecShare.I + 1]

\* The deals of the list are those of different verifiers.
DistinctVerifiers(deals) ==
    \A i, j \in 1 .. Len(deals) :
        i # j => deals[i].SecShare.I # deals[j].SecShare.I

\* C20: for the deals of one honest dealing of secret s with threshold t,
\* vss.RecoverSecret given the deals of any t or more distinct verifiers,
\* whichever they are and in whatever order they are listed, returns s; and
\* it never returns a scalar different from s without an error.
C20_RecoverReturnsSecret ==
    HonestRecoverCall =>
        /\ (DistinctVerifiers(ret.in.deals) /\ Len(ret.in.deals) >= ret.in.t)
              => (ret.err = "" /\ ret.out = <<dealer[1].secret>>)
        /\ ret.err = "" => ret.out = <<dealer[1].secret>>

-----------------------------------------------------------------------------
(* Specification of the polynomial operations of package share: one call   *)
(* of Check, Add, RecoverCommit or RecoverSecret on a polynomial p         *)

\* Coefficients above the constant term of the polynomials under test.
PolyCoeffs == {0, 1, 3}

\* The second operand of an addition.
Addends == UNION {[1 .. t -> {1, 4}] : t \in 1 .. MaxN}

\* Base points handed to Commit: nil for the standard base, or a point object.
BasePoints == {Nil, <<PointObj("h", HBase)>>, <<PointObj("k", 3)>>}

\* Lists of at most MaxN entries, each the index of a share or -1 for nil.
IndexLists == UNION {[1 .. m -> (-1) .. (MaxN - 1)] : m \in 1 .. MaxN}

PolyInit ==
    /\ \E t \in 1 .. MaxN, s \in Scalars, rnd \in [1 .. (MaxN - 1) -> PolyCoeffs] :
          poly = NewPriPoly(t, <<s>>, rnd)
    /\ shares = <<>>
    /\ recovered = NoRecovery
    /\ dealer = Nil /\ dagg = Nil /\ self = 0
    /\ vagg = [v \in Verifiers |-> Nil]
    /\ focus = "poly"
    /\ ret = NoRet
    /\ net = NoNet

\* ok := p.Commit(b).Check(s), s being p.Eval(i) with dv added to its value
CheckCall(b, i, dv) ==
    /\ ret.op = "none"
    /\ LET e == PriEval(poly, i)
           s == [I |-> e.I, V |-> AddQ(e.V, dv)]
       IN  ret' = Ret("Check", 0, [b |-> b, s |-> s], Nil, "",
                      <<PubCheck(Commit(poly, b), s)>>)
    /\ UNCHANGED <<shareVars, dealer, dagg, self, vagg, focus, net>>

\* r, err := p.Add(q)
PriAddCall(q) ==
    /\ ret.op = "none"
    /\ LET r == PriPolyAdd(poly, q)
       IN  ret' = Ret("PriPoly.Add", 0, [q |-> q], <<poly>>, r.err, r.poly)
    /\ UNCHANGED <<shareVars, dealer, dagg, self, vagg, focus, net>>

\* R, err := p.Commit(b).Add(q.Commit(b2))
PubAddCall(b, b2, q) ==
    /\ ret.op = "none"
    /\ LET P == Commit(poly, b)
           R == Commit(q, b2)
           r == PubPolyAdd(P, R)
       IN  ret' = Ret("PubPoly.Add", 0, [P |-> P, R |-> R], Nil, r.err, r.poly)
    /\ UNCHANGED <<shareVars, dealer, dagg, self, vagg, focus, net>>

\* The first n public shares of P with the entries outside keep set to nil.
KeptPubShares(P, n, keep) ==
    [k \in 1 .. n |-> IF (k - 1) \in keep THEN PubShares(P, n)[k] ELSE Nil]

\* C, err := RecoverCommit(g, shares, t), shares being p.Commit(b).Shares(n)
\* with some entries replaced by nil
RecoverCommitCall(b, n, keep, t) ==
    /\ ret.op = "none"
    /\ LET sh == KeptPubShares(Commit(poly, b), n, keep)
           r == RecoverCommit(sh, t)
       IN  ret' = Ret("RecoverCommit", 0,
                      [b |-> b, n |-> n, keep |-> keep, shares |-> sh, t |-> t],
                      Nil, r.err, r.v)
    /\ UNCHANGED <<shareVars, dealer, dagg, self, vagg, focus, net>>

\* The list whose entry k is the share p.Eval(idx[k]), nil where idx[k] is -1.
ListedShares(p, idx) ==
    [k \in 1 .. Len(idx) |-> IF idx[k] = -1 THEN Nil ELSE <<PriEval(p, idx[k])>>]

\* s, err := RecoverSecret(g, shares, p.Threshold()), the caller having put
\* shares of p into the list in an order of its choice
RecoverSecretCall(idx) ==
    /\ ret.op = "none"
    /\ LET sh == ListedShares(poly, idx)
           r == RecoverSecret(sh, Threshold(poly))
       IN  ret' = Ret("RecoverSecret", 0,
                      [idx |-> idx, shares |-> sh, t |-> Threshold(poly)],
                      Nil, r.err, r.v)
    /\ UNCHANGED <<shareVars, dealer, dagg, self, vagg, focus, net>>

PolyNext ==
    \/ \E b \in BasePoints, i \in 0 .. Q, dv \in Scalars : CheckCall(b, i, dv)
    \/ \E q \in Addends : PriAddCall(q)
    \/ \E b \in BasePoints, b2 \in BasePoints, q \in Addends : PubAddCall(b, b2, q)
    \/ \E b \in BasePoints, n \in 1 .. MaxN, t \in 0 .. MaxN :
          \E keep \in SUBSET (0 .. (n - 1)) : RecoverCommitCall(b, n, keep, t)
    \/ \E idx \in IndexLists : RecoverSecretCall(idx)

SpecPoly == PolyInit /\ [][PolyNext]_vars

\* C21: for every polynomial p, every base point B (nil being the standard
\* base) and every index i, p.Commit(B).Check accepts the share p.Eval(i),
\* and it rejects a share of index i whose value differs from p(i+1).
C21_CommitChecksShares ==
    ret.op = "Check" =>
        ret.out = <<ret.in.s.V = PriEval(poly, ret.in.s.I).V>>

\* The share of index 2 of a polynomial of threshold 3, committed on a base
\* of its own, is accepted.
C21_Witness ==
    /\ ret.op = "Check" /\ ret.in.b # Nil
    /\ Threshold(poly) = 3 /\ poly[3] # 0
    /\ ret.in.s = PriEval(poly, 2)
    /\ ret.out = <<TRUE>>

\* C22: (p.Add(q)).Eval(i) is the sum of p.Eval(i) and q.Eval(i) at every
\* index i, for private polynomials and likewise for committed ones; Add
\* returns a new polynomial, leaves its operands as they were, and returns an
\* error when the thresholds differ.
C22_AddIsHomomorphic ==
    /\ ret.op = "PriPoly.Add" =>
          LET q == ret.in.q
          IN  /\ ret.pre = <<poly>>
              /\ Threshold(poly) # Threshold(q) => (ret.err # "" /\ ret.out = Nil)
              /\ Threshold(poly) = Threshold(q) =>
                    /\ ret.err = "" /\ ret.out # Nil
                    /\ \A i \in 0 .. Q :
                          PriEval(ret.out[1], i) =
                              [I |-> i,
                               V |-> AddQ(PriEval(poly, i).V, PriEval(q, i).V)]
    /\ ret.op = "PubPoly.Add" =>
          LET P == ret.in.P
              R == ret.in.R
          IN  /\ Len(P.commits) # Len(R.commits) => (ret.err # "" /\ ret.out = Nil)
              /\ (Len(P.commits) = Len(R.commits) /\ P.b = R.b) => ret.err = ""
              /\ ret.err = "" =>
                    /\ ret.out # Nil
                    /\ \A i \in 0 .. Q :
                          PubEval(ret.out[1], i) =
                              [I |-> i,
                               V |-> PointAdd(PubEval(P, i).V, PubEval(R, i).V)]

\* The commitments of two polynomials of threshold 3 on one base other than
\* the standard one were added.
C22_Witness ==
    /\ ret.op = "PubPoly.Add" /\ ret.err = ""
    /\ ret.in.P.b # Nil
    /\ Threshold(poly) = 3 /\ poly[2] # 0

\* The private shares matching the public ones handed to RecoverCommit.
KeptPriShares(p, n, keep) ==
    [k \in 1 .. n |-> IF (k - 1) \in keep THEN PriShares(p, n)[k] ELSE Nil]

\* C23: RecoverCommit on at least t of the shares p.Commit(B).Shares(n) of a
\* polynomial p of threshold t, each kept share at the position of its index
\* and the others nil, returns p.coeffs[0] * B, which is the commitment of
\* what RecoverSecret returns on the matching private shares.
C23_RecoverCommitIsSecretCommit ==
    (/\ ret.op = "RecoverCommit"
     /\ ret.in.t = Threshold(poly)
     /\ Cardinality(ret.in.keep) >= ret.in.t)
    => LET rs == RecoverSecret(KeptPriShares(poly, ret.in.n, ret.in.keep), ret.in.t)
       IN  /\ ret.err = ""
           /\ ret.out = <<PointMul(ret.in.b, poly[1])>>
           /\ rs.err = ""
           /\ ret.out = <<PointMul(ret.in.b, rs.v[1])>>

\* The commitment of a polynomial of threshold 2 on a base of its own was
\* recovered from the second and third of its three public shares.
C23_Witness ==
    /\ ret.op = "RecoverCommit" /\ ret.err = ""
    /\ ret.in.b # Nil /\ ret.in.t = 2 /\ Threshold(poly) = 2
    /\ poly[1] # 0 /\ poly[2] # 0
    /\ ret.in.n = 3 /\ ret.in.keep = {1, 2}

\* Positions of the list idx that hold a share.
Listed(idx) == {k \in 1 .. Len(idx) : idx[k] # -1}

\* C30: p.Eval(i) is the value of p at x = i+1 labelled i, and Lagrange
\* reconstruction interpolates every supplied share at x = share.I + 1, so
\* that at least t shares of distinct indices give back p(0) wherever they
\* stand in the list.
C30_ReconstructionByShareIndex ==
    (/\ ret.op = "RecoverSecret"
     /\ \A k \in Listed(ret.in.idx) :
           /\ ret.in.shares[k][1].I = ret.in.idx[k]
           /\ ret.in.shares[k][1].V =
                 HornerScalar(poly, (ret.in.idx[k] + 1) % Q, Threshold(poly) - 1, 0)
     /\ \A k, l \in Listed(ret.in.idx) :
           ret.in.idx[k] = ret.in.idx[l] => k = l
     /\ Cardinality(Listed(ret.in.idx)) >= ret.in.t)
    => (ret.err = "" /\ ret.out = <<poly[1]>>)

-----------------------------------------------------------------------------
(* The session id in the honest run *)

\* C24: the session id is a function of the dealer's public key, the ordered
\* verifier list, the commitments and t, and the honest run agrees on it:
\* once a verifier has processed its deal, the SessionID of its Response and
\* its Verifier.SessionID() both equal Dealer.SessionID(), and the Dealer
\* and every other verifier holding its deal accept that Response.
C24_SessionIdAgreed ==
    dealer # Nil =>
        /\ dealer[1].sessionID =
              sessionID(DealerPub, VerifiersPub, dagg[1].commits, dealer[1].t)
        /\ \A v \in Verifiers : vagg[v] # Nil =>
              /\ net.resp[v] # Nil
              /\ net.resp[v][1].SessionID = dealer[1].sessionID
              /\ VerifierSessionID(vagg[v]) =
                    [err |-> "", out |-> <<dealer[1].sessionID>>]
              /\ <<v, DealerPub>> \notin net.seen =>
                    DealerProcessResponse(dealer[1], dagg[1], net.resp[v][1]).err = ""
              /\ \A w \in Verifiers \ {v} :
                    (vagg[w] # Nil /\ <<v, w>> \notin net.seen) =>
                        verifyResponse(vagg[w][1], net.resp[v][1]).err = ""

\* Every verifier holds its deal and the Response of the last verifier has
\* been processed by the Dealer and by the first verifier.
C24_Witness ==
    /\ dealer # Nil
    /\ \A v \in Verifiers : vagg[v] # Nil
    /\ <<NV - 1, DealerPub>> \in net.seen
    /\ <<NV - 1, 0>> \in net.seen
    /\ dagg[1].responses[NV - 1] # Nil
    /\ vagg[0][1].responses[NV - 1] # Nil

\* Positions of the list sh that hold a share.
Held(sh) == {k \in 1 .. Len(sh) : sh[k] # Nil}

\* The t first positions of the list sh that hold a share.
FirstHeld(sh, t) ==
    {k \in Held(sh) : Cardinality({l \in Held(sh) : l < k}) < t}

\* The list sh with every share after the t first ones replaced by nil.
FirstOnly(sh, t) ==
    [k \in 1 .. Len(sh) |-> IF k \in FirstHeld(sh, t) THEN sh[k] ELSE Nil]

\* C31: for t >= 1, xCoords sets exactly t x-coordinates, those of the t
\* first non-nil shares in list order; RecoverSecret and RecoverCommit use
\* these t shares only, whatever the later shares are, and return an error
\* when fewer than t shares are non-nil.
C31_FirstTSharesUsed ==
    (ret.op \in {"RecoverSecret", "RecoverCommit"} /\ ret.in.t >= 1) =>
        LET sh == ret.in.shares
            t == ret.in.t
            xc == XCoords(t, Len(sh), [k \in 1 .. Len(sh) |-> sh[k] # Nil])
            only == IF ret.op = "RecoverSecret"
                    THEN RecoverSecret(FirstOnly(sh, t), t)
                    ELSE RecoverCommit(FirstOnly(sh, t), t)
        IN  /\ Cardinality(Held(sh)) < t =>
                  (xc.err # "" /\ ret.err # "" /\ ret.out = Nil)
            /\ Cardinality(Held(sh)) >= t =>
                  /\ xc.err = ""
                  /\ {k \in 1 .. Len(sh) : xc.x[k] # Nil} = FirstHeld(sh, t)
                  /\ Cardinality(FirstHeld(sh, t)) = t
                  /\ \A k \in FirstHeld(sh, t) : xc.x[k] = <<k % Q>>
                  /\ ret.err = "" /\ only.err = ""
                  /\ ret.out = only.v

\* Three public shares are handed to RecoverCommit with t = 2 for a
\* polynomial of threshold 3, so that the third share does not lie on the
\* line through the first two.
C31_Witness ==
    /\ ret.op = "RecoverCommit" /\ ret.err = ""
    /\ ret.in.t = 2 /\ Threshold(poly) = 3 /\ poly[3] # 0
    /\ ret.in.n = 3 /\ ret.in.keep = {0, 1, 2}
    /\ RecoverCommit([ret.in.shares EXCEPT ![2] = Nil], 2).v # ret.out

\* C33: adding two public polynomials of the same group and the same
\* threshold succeeds and yields the coefficient-wise sum of their
\* commitments, whatever their base points, as NewDealer needs it for
\* C = F + G with F committed on the standard base and G on the base H.
C33_PubAddOfEqualThresholds ==
    (ret.op = "PubPoly.Add"
     /\ Len(ret.in.P.commits) = Len(ret.in.R.commits)) =>
        /\ ret.err = "" /\ ret.out # Nil
        /\ ret.out[1].commits =
              [k \in 1 .. Len(ret.in.P.commits) |->
                  PointAdd(ret.in.P.commits[k], ret.in.R.commits[k])]

-----------------------------------------------------------------------------------------------------------------------------------------------------
(* Specification of a run with complaints.  The Dealer seals for some      *)
(* verifiers a deal whose share value is wrong; such a verifier broadcasts *)
(* a complaint, the Dealer answers it with a Justification carrying the    *)
(* deal it keeps for that index, and the Justification is processed by the *)
(* verifiers that were handed the complaint.                               *)
(* A Response is a Go object: ProcessEncryptedDeal stores in the           *)
(* aggregator the pointer it returns, and addResponse stores the pointer   *)
(* it is handed.  In a run within one process the messages are handed on   *)
(* as pointers and the aggregators that accepted a response hold the one   *)
(* object; in a run over a network each receiver holds a copy made when    *)
(* the message is sent.  verifyJustification writes Approved into the      *)
(* object its aggregator holds.                                            *)

\* The verifiers that may be sent a deal with a wrong share value.
Complainers == {0}

\* No response and no justification have been broadcast.  resp[i] is the
\* Response object the caller of verifier i holds, flipped the indices whose
\* object was written after it was signed, late the deliveries of such an
\* object.
JustInit ==
    /\ ShareIdle
    /\ dealer = Nil /\ dagg = Nil
    /\ vagg = [v \in Verifiers |-> Nil]
    /\ focus = "just" /\ self = 0
    /\ ret = NoRet
    /\ \E bp \in BOOLEAN :
          net = [resp |-> [i \in Verifiers |-> Nil], seen |-> {},
                 just |-> [i \in Verifiers |-> Nil], justSeen |-> {},
                 byPointer |-> bp, flipped |-> {}, late |-> {}]

\* r, err := verifier_v.ProcessEncryptedDeal(e), where e seals the deal of
\* index v or that deal with another share value; r is broadcast.
JustProcessDeal(v, c) ==
    /\ dealer # Nil
    /\ vagg[v] = Nil
    /\ c.kind = "dealt" \/ (c.kind = "SecShare.V" /\ v \in Complainers)
    /\ LET p == ProcessEncryptedDeal(v, VerifiersPub, vagg[v],
                    EncDealInput(dealer[1], v, v + 1, c, "sealed"))
       IN  /\ vagg' = [vagg EXCEPT ![v] = p.agg]
           /\ net' = [net EXCEPT !.resp[v] = p.resp]
    /\ UNCHANGED <<shareVars, dealer, dagg, self, focus, ret>>

\* The response of verifier i as it is handed on now.  Response.Hash covers
\* Approved, so the signature of an object whose Approved was written after
\* signing does not verify.
Delivered(i) ==
    IF i \in net.flipped THEN [net.resp[i][1] EXCEPT !.Signer = NoKey]
    ELSE net.resp[i][1]

\* The instances whose aggregator holds the Response object of verifier i:
\* verifier i itself and, when messages are handed on as pointers, the
\* instances that accepted the response.
Sharers(i) ==
    {i} \cup (IF net.byPointer
              THEN {w \in Verifiers \cup {DealerPub} :
                       <<i, w>> \in net.seen \ net.late}
              ELSE {})

\* j, err := dealer.ProcessResponse(r) for the response of verifier i; a
\* Justification returned is broadcast.
JustDealerResponse(i) ==
    /\ net.resp[i] # Nil
    /\ <<i, DealerPub>> \notin net.seen
    /\ LET p == DealerProcessResponse(dealer[1], dagg[1], Delivered(i))
       IN  /\ dagg' = <<p.agg>>
           /\ net' = [net EXCEPT !.seen = @ \cup {<<i, DealerPub>>},
                                 !.late = IF i \in net.flipped
                                          THEN @ \cup {<<i, DealerPub>>} ELSE @,
                                 !.just[i] = p.just]
    /\ UNCHANGED <<shareVars, dealer, self, vagg, focus, ret>>

\* err := verifier_v.ProcessResponse(r) for the response of verifier i
JustVerifierResponse(i, v) ==
    /\ i # v
    /\ net.resp[i] # Nil
    /\ <<i, v>> \notin net.seen
    /\ vagg[v] # Nil
    /\ net' = [net EXCEPT !.seen = @ \cup {<<i, v>>},
                          !.late = IF i \in net.flipped
                                   THEN @ \cup {<<i, v>>} ELSE @]
    /\ vagg' = [vagg EXCEPT ![v] = <<verifyResponse(vagg[v][1], Delivered(i)).agg>>]
    /\ UNCHANGED <<shareVars, dealer, dagg, self, focus, ret>>

\* The aggregator pointer ao after Approved of the Response object it holds
\* for index i was set.
FlipStored(ao, i) ==
    IF ao = Nil \/ ao[1].responses[i] = Nil THEN ao
    ELSE <<[ao[1] EXCEPT !.responses[i] = <<[@[1] EXCEPT !.Approved = TRUE]>>]>>

\* err := verifier_v.ProcessJustification(j) for the Justification answering
\* the complaint of verifier i, which v was handed before.  r.Approved = true
\* is written into the object the aggregator of v holds, hence into every
\* aggregator that holds the same object.
JustVerifierJustification(i, v) ==
    /\ net.just[i] # Nil
    /\ <<i, v>> \notin net.justSeen
    /\ vagg[v] # Nil
    /\ i = v \/ <<i, v>> \in net.seen
    /\ LET p == verifyJustification(vagg[v][1], net.just[i][1])
           written == p.err = "" /\ v \in Sharers(i)
       IN  /\ vagg' = [w \in Verifiers |->
                         IF w = v THEN <<p.agg>>
                         ELSE IF written /\ w \in Sharers(i)
                              THEN FlipStored(vagg[w], i)
                              ELSE vagg[w]]
           /\ dagg' = IF written /\ DealerPub \in Sharers(i)
                      THEN FlipStored(dagg, i) ELSE dagg
           /\ net' = [net EXCEPT
                        !.justSeen = @ \cup {<<i, v>>},
                        !.resp[i] = IF written
                                    THEN <<[@[1] EXCEPT !.Approved = TRUE]>> ELSE @,
                        !.flipped = IF written THEN @ \cup {i} ELSE @]
    /\ UNCHANGED <<shareVars, dealer, self, focus, ret>>

JustNext ==
    \/ \E secret \in DealerSecrets, rnd \in DealerStreams, t \in TInputs :
          LiveNewDealer(secret, rnd, t)
    \/ \E v \in Verifiers, c \in DealKinds : JustProcessDeal(v, c)
    \/ \E i \in Verifiers : JustDealerResponse(i)
    \/ \E i \in Verifiers, v \in Verifiers : JustVerifierResponse(i, v)
    \/ \E i \in Verifiers, v \in Verifiers : JustVerifierJustification(i, v)

SpecJust == JustInit /\ [][JustNext]_vars

\* Every verifier holds a deal, every response has been processed by the
\* Dealer and by every other verifier, and every Justification has been
\* processed by every verifier.
JustAllDelivered ==
    /\ focus = "just"
    /\ AllDelivered
    /\ \A i \in Verifiers :
          net.just[i] # Nil => \A v \in Verifiers : <<i, v>> \in net.justSeen

\* C37: once every response has been processed by the Dealer and by every
\* verifier, and every Justification of the Dealer by every verifier,
\* Dealer.DealCertified() and Verifier.DealCertified() of every verifier
\* return the same value, also when a complaint was answered by a valid
\* Justification.
C37_DealerAndVerifiersAgree ==
    JustAllDelivered =>
        \A v \in Verifiers : DealCertified(vagg[v]) = DealCertified(dagg)

\* The responses the instance who (a verifier index, or DealerPub) has
\* processed while their signature was valid: its own, and those delivered
\* to it before the object was written.
ProcessedBy(who) ==
    {i \in Verifiers :
        net.resp[i] # Nil /\ (i = who \/ <<i, who>> \in net.seen \ net.late)}

\* The response of verifier i as it was signed.
AsSigned(i) ==
    [net.resp[i][1] EXCEPT !.Approved = IF i \in net.flipped THEN FALSE ELSE @]

\* What the instance stores for them whatever the order of the calls: each
\* response as signed, approved once its Justification was processed by the
\* instance or by an instance holding the same object.
ExpectedResponses(who) ==
    [i \in Verifiers |->
        IF i \in ProcessedBy(who)
        THEN <<[AsSigned(i) EXCEPT
                  !.Approved = \/ @
                               \/ <<i, who>> \in net.justSeen
                               \/ (who \in Sharers(i) /\ i \in net.flipped)]>>
        ELSE Nil]

ExpectedCount(who, verdict) ==
    Cardinality({i \in ProcessedBy(who) :
                    ExpectedResponses(who)[i][1].Approved = verdict})

OrderIndependent(who, a) ==
    /\ a.responses = ExpectedResponses(who)
    /\ EnoughApprovals(a) = (ExpectedCount(who, TRUE) >= dealer[1].t)
    /\ DealCertified(<<a>>) = (/\ ExpectedCount(who, TRUE) >= dealer[1].t
                               /\ ExpectedCount(who, FALSE) < dealer[1].t)

\* C39: processing valid responses of distinct indices commutes: in every
\* order of delivery, the responses an aggregator stores, EnoughApprovals()
\* and DealCertified() are determined by the set of responses processed so
\* far, on the Dealer and on every verifier.
C39_ResponseOrderIrrelevant ==
    (focus = "just" /\ dealer # Nil) =>
        /\ OrderIndependent(DealerPub, dagg[1])
        /\ \A v \in Verifiers : vagg[v] # Nil => OrderIndependent(v, vagg[v][1])

\* Verifier 1 has processed the complaint of verifier 0 and the approval of
\* verifier 2, which are delivered in either order, and the Dealer all three.
C39_Witness ==
    /\ focus = "just" /\ dealer # Nil /\ dealer[1].t = 2
    /\ vagg[1] # Nil
    /\ ProcessedBy(1) = Verifiers /\ ProcessedBy(DealerPub) = Verifiers
    /\ ~net.resp[0][1].Approved /\ net.resp[2][1].Approved
    /\ net.justSeen = {}
    /\ Stored(vagg[1][1], TRUE) = NV - 1 /\ Stored(vagg[1][1], FALSE) = 1
    /\ DealCertified(vagg[1]) /\ DealCertified(dagg)

\* The shares of p.Shares(n) are in the list, none dropped, nothing recovered.
FreshShares ==
    /\ focus = "share"
    /\ shares # <<>> /\ NonNil(shares) = Len(shares)
    /\ ~recovered.done

\* The random coefficient lists for which the polynomial of threshold t with
\* constant term s yields the values in the list at the indices S.
SameView(S, t, s) ==
    {r \in [1 .. (t - 1) -> Scalars] :
        \A i \in S : PriEval(NewPriPoly(t, <<s>>, r), i).V = shares[i + 1][1].V}

\* C40: for a sharing polynomial of threshold t >= 2 and every set of t - 1
\* distinct indices of its shares, every candidate secret has exactly one
\* polynomial of threshold t with that constant term that yields the same
\* t - 1 share values, so that t - 1 shares are consistent with every
\* secret; and the share of index i is the value at the x-coordinate i + 1,
\* which is not 0.
C40_SecrecyBelowThreshold ==
    (FreshShares /\ Threshold(poly) >= 2) =>
        /\ \A S \in SUBSET (0 .. (Len(shares) - 1)) :
              Cardinality(S) = Threshold(poly) - 1 =>
                  \A s \in Scalars : Cardinality(SameView(S, Threshold(poly), s)) = 1
        /\ \A k \in 1 .. Len(shares) :
              /\ SetInt64(k) # 0
              /\ shares[k][1].I = k - 1
              /\ shares[k][1].V = HornerScalar(poly, SetInt64(k), Threshold(poly) - 1, 0)

\* Three shares of a polynomial of threshold 3 and secret 3; the shares of
\* indices 0 and 2 are also those of a polynomial with secret 4.
C40_Witness ==
    /\ FreshShares
    /\ Threshold(poly) = 3 /\ Len(shares) = 3
    /\ poly[1] = 3 /\ poly[3] # 0
    /\ SameView({0, 2}, 3, 4) # {}
====
